---- MODULE Spec2Model ----
(***************************************************************************)
(* A model of org-viewer: the webview's structural enhancer                *)
(* (src/src/webview.ts), the unified pipeline (src/src/orgParser.ts) and   *)
(* the uniorg metadata plugin (src/src/orgMetadata.ts).                    *)
(*                                                                         *)
(* The rendered document is a DOM: a function from container nodes to the  *)
(* sequence of their child nodes.  The article's original top-level        *)
(* children are El(1) .. El(n); buildSections creates Sec(i) and Body(i)   *)
(* for the heading El(i).                                                  *)
(***************************************************************************)
EXTENDS Integers, Sequences, FiniteSets, TLC

\* ------------------------------------------------------------------ bounds
\* Longest article (number of top-level children) of the section model.
MaxLen == 4
\* Deepest heading tag of the model (H1 .. H<MaxLevel>, at most 6).
MaxLevel == 3
\* offsetHeight values a heading may be laid out with (px).
HeadingHeights == {20, 30}

VARIABLES
  children,      \* tag names of the article's original top-level children
  offsetHeight,  \* layout: rendered height of each original child
  textContent,   \* the text of each original child, a sequence of characters
  wrap,          \* what the text node of each original child lies inside of
  rectTop,       \* layout: getBoundingClientRect().top of each original child
  phase,         \* "parsed" before DOMContentLoaded, "ready" after
  dom,           \* container node -> sequence of child nodes
  sectionHeading,\* indices of the elements carrying class section-heading
  stickyTop,     \* heading index -> style.top in px
  tocId,         \* heading index -> data-toc-id
  toc,           \* the .toc-item elements of nav.doc-toc, in order
  pieces,        \* the nodes that stand for the text node of each child
  tocPanel,      \* whether nav.doc-toc was inserted (body has class has-toc)
  tocActive,     \* positions in toc carrying class active
  classes,       \* [body, section, toggle]: collapsed bodies, is-collapsed
                 \* sections and each heading's toggle glyph
  scrollListener,\* whether setupScrollSpy registered its scroll listener
  ticking,       \* the scroll handler's guard
  rafQueue,      \* callbacks handed to requestAnimationFrame, not yet run
  scrolledTo,    \* the original child last handed to scrollIntoView, 0 if none
  posted,        \* the messages handed to vscode.postMessage, in order
  tabs,          \* the view toggle: active buttons, display of the three
                 \* views, docMapLoaded, templateLoaded, templateRawOrg, the
                 \* template's copy button
  call,          \* the one orgToHtml invocation: status, input text, how
                 \* processor.process settled, and the value returned
  runs,          \* overlapping orgToHtml invocations: status, input text,
                 \* the stage reached, the value in flight, the string returned
  processor,     \* what the module keeps between invocations: the sets the
                 \* plugins of the shared processor hold
  orgParsed,     \* the uniorg syntax tree as the parser produced it
  orgTree,       \* the syntax tree the metadata plugin rewrites in place
  orgDone,       \* whether the metadata plugin has run on orgTree
  hastParsed,    \* the hast render tree as rehype-raw produced it
  hastTree,      \* the render tree rehypeCleanUnknownNodes rewrites in place
  hastDone,      \* whether rehypeCleanUnknownNodes has run on hastTree
  manager,       \* the PreviewManager: panels, followPanel, followKey, the
                 \* webview panels it created and the updates awaiting orgToHtml
  documentText,  \* document -> the version of its text
  activeEditor,  \* the document of vscode.window.activeTextEditor
  debounceTimer  \* the document of the pending debounce timeout, null if none

docVars == <<children, offsetHeight, textContent, wrap>>
buildVars == <<phase, dom, sectionHeading, stickyTop, tocId, toc, pieces, tocPanel>>
spyVars == <<rectTop, tocActive, scrollListener, ticking, rafQueue>>
navVars == <<scrolledTo>>
msgVars == <<posted>>
tabVars == <<tabs>>
viewVars == <<docVars, buildVars, spyVars, classes, navVars, msgVars, tabVars>>

runVars == <<runs, processor>>
pipeVars == <<call, runVars>>
orgVars == <<orgParsed, orgTree, orgDone>>
hastVars == <<hastParsed, hastTree, hastDone>>
mgrVars == <<manager, documentText, activeEditor, debounceTimer>>
hostVars == <<pipeVars, orgVars, hastVars, mgrVars>>

vars == <<viewVars, hostVars>>

\* ------------------------------------------------------------------ nodes
El(i) == [k |-> "el", i |-> i]
Sec(i) == [k |-> "sec", i |-> i]
Body(i) == [k |-> "body", i |-> i]
Article == [k |-> "article", i |-> 0]
Fragment == [k |-> "fragment", i |-> 0]

HeadingTags == <<"H1", "H2", "H3", "H4", "H5", "H6">>
Tags == {"P"} \cup {HeadingTags[l] : l \in 1..MaxLevel}

\* tagName.match(/^H([1-6])$/) ? parseInt(m[1]) : 0
headingLevel(tag) ==
  IF \E l \in 1..6 : HeadingTags[l] = tag
  THEN CHOOSE l \in 1..6 : HeadingTags[l] = tag
  ELSE 0

Range(s) == {s[x] : x \in DOMAIN s}

RECURSIVE ConcatAll(_)
ConcatAll(ss) == IF ss = <<>> THEN <<>> ELSE Head(ss) \o ConcatAll(Tail(ss))

\* parent.appendChild(node)
appendChild(d, parent, node) == [d EXCEPT ![parent] = Append(@, node)]

\* while (stack.length > 0 && stack[stack.length - 1].level >= level) stack.pop()
RECURSIVE popStackNoEqual(_, _)
popStackNoEqual(stack, level) ==
  IF Len(stack) > 0 /\ stack[Len(stack)].level > level
  THEN popStackNoEqual(SubSeq(stack, 1, Len(stack) - 1), level)
  ELSE stack

RECURSIVE popStack(_, _)
popStack(stack, level) ==
  IF Len(stack) > 0 /\ stack[Len(stack)].level >= level
  THEN popStack(SubSeq(stack, 1, Len(stack) - 1), level)
  ELSE stack

\* The section wrapper of heading i: section.appendChild(child), then a new
\* body, section.appendChild(body).
newSectionNoBody(d, i) == d @@ (Sec(i) :> <<El(i)>>)

newSection(d, i) == d @@ (Sec(i) :> <<El(i), Body(i)>>) @@ (Body(i) :> <<>>)

\* A variant that attaches everything to the document root.
attachPointRoot(stack) == Fragment

\* stack top's body, or the fragment when the stack is empty
attachPoint(stack) == IF Len(stack) > 0 THEN stack[Len(stack)].body ELSE Fragment

\* One iteration of the for loop of buildSections over child i.
buildChild(st, kids, i) ==
  LET level == headingLevel(kids[i]) IN
  IF level > 0
  THEN LET stack == popStack(st.stack, level)
           d == appendChild(newSection(st.dom, i), attachPoint(stack), Sec(i))
       IN [stack |-> Append(stack, [level |-> level, body |-> Body(i)]),
           dom |-> d,
           heads |-> st.heads \cup {i}]
  ELSE [st EXCEPT !.dom = appendChild(st.dom, attachPoint(st.stack), El(i))]

RECURSIVE buildLoop(_, _, _)
buildLoop(st, kids, i) ==
  IF i > Len(kids) THEN st ELSE buildLoop(buildChild(st, kids, i), kids, i + 1)

\* buildSections: the loop over Array.from(article.children), then
\* article.innerHTML = ""; article.appendChild(fragment).
buildSections(kids) ==
  LET st == buildLoop([stack |-> <<>>, dom |-> (Fragment :> <<>>), heads |-> {}], kids, 1)
      d == st.dom
  IN [dom |-> [n \in (DOMAIN d \ {Fragment}) \cup {Article} |->
                 IF n = Article THEN d[Fragment] ELSE d[n]],
      heads |-> st.heads]

\* ---------------------------------------------------------- DOM navigation
HasChildren(d, n) == n \in DOMAIN d

\* The nodes of the subtree of n, in document order (n first).
RECURSIVE DocOrder(_, _)
DocOrder(d, n) ==
  IF HasChildren(d, n)
  THEN <<n>> \o ConcatAll([x \in DOMAIN d[n] |-> DocOrder(d, d[n][x])])
  ELSE <<n>>

\* node.parentElement (Article when the node is detached or the article itself)
parentElement(d, n) ==
  IF \E c \in DOMAIN d : n \in Range(d[c])
  THEN CHOOSE c \in DOMAIN d : n \in Range(d[c])
  ELSE Article

\* el.closest(".doc-section"): the nearest inclusive ancestor that is a
\* section; Article stands for null.
RECURSIVE closestSection(_, _)
closestSection(d, n) ==
  IF n.k = "sec" THEN n
  ELSE IF n = Article THEN Article
  ELSE closestSection(d, parentElement(d, n))

\* ancestor.parentElement?.closest(".doc-section") ?? null
parentSection(d, s) ==
  IF s = Article THEN Article ELSE closestSection(d, parentElement(d, s))

\* document.querySelectorAll(".section-heading"), in document order
sectionHeadings(d, heads) ==
  SelectSeq(DocOrder(d, Article), LAMBDA n : n.k = "el" /\ n.i \in heads)

\* ancestor.querySelector(":scope > .section-heading")?.offsetHeight, 0 if none
ownHeadingHeight(d, heads, h, s) ==
  LET own == SelectSeq(d[s], LAMBDA n : n.k = "el" /\ n.i \in heads)
  IN IF own = <<>> THEN 0 ELSE h[own[1].i]

\* A variant that adds the parent section's heading only.
sumParentOnly(d, heads, h, ancestor) ==
  IF ancestor = Article THEN 0 ELSE ownHeadingHeight(d, heads, h, ancestor)

\* The while loop of setStickyOffsets: top += parentHeading.offsetHeight
\* for every ancestor section.
RECURSIVE sumAncestors(_, _, _, _)
sumAncestors(d, heads, h, ancestor) ==
  IF ancestor = Article THEN 0
  ELSE ownHeadingHeight(d, heads, h, ancestor)
       + sumAncestors(d, heads, h, parentSection(d, ancestor))

\* top of one heading: starts at the parent section of the heading's own section
stickyOffset(d, heads, h, heading) ==
  sumAncestors(d, heads, h, parentSection(d, closestSection(d, heading)))

\* setStickyOffsets: data-toc-id = index in the NodeList, style.top = sum
setStickyOffsets(d, heads, h) ==
  LET hs == sectionHeadings(d, heads) IN
  [top |-> [i \in {hs[x].i : x \in DOMAIN hs} |-> stickyOffset(d, heads, h, El(i))],
   id |-> [i \in {hs[x].i : x \in DOMAIN hs} |->
             (CHOOSE x \in DOMAIN hs : hs[x].i = i) - 1]]

\* ------------------------------------------------------- file references
\* Strings are sequences of one-character strings.
Letters ==
  {"a", "b", "c", "d", "e", "f", "g", "h", "i", "j", "k", "l", "m",
   "n", "o", "p", "q", "r", "s", "t", "u", "v", "w", "x", "y", "z",
   "A", "B", "C", "D", "E", "F", "G", "H", "I", "J", "K", "L", "M",
   "N", "O", "P", "Q", "R", "S", "T", "U", "V", "W", "X", "Y", "Z"}
Digits == {"0", "1", "2", "3", "4", "5", "6", "7", "8", "9"}

\* \w
wordChar(c) == c \in Letters \cup Digits \cup {"_"}
\* [\w.*-]
pathChar(c) == wordChar(c) \/ c \in {".", "*", "-"}

\* The alternatives of the extension group of FILE_REF_PATTERN, in order.
FILE_REF_EXTS ==
  <<<<"o", "r", "g">>, <<"m", "d">>, <<"m", "d", "x">>, <<"p", "y">>,
    <<"j", "s">>, <<"t", "s">>, <<"t", "s", "x">>, <<"j", "s", "x">>,
    <<"r", "s">>, <<"g", "o">>, <<"j", "a", "v", "a">>, <<"c">>,
    <<"c", "p", "p">>, <<"h">>, <<"r", "b">>, <<"p", "h", "p">>,
    <<"s", "w", "i", "f", "t">>, <<"k", "t">>, <<"c", "s">>, <<"s", "h">>,
    <<"b", "a", "s", "h">>, <<"z", "s", "h">>, <<"l", "u", "a">>, <<"r">>,
    <<"p", "l">>, <<"e", "x">>, <<"e", "x", "s">>, <<"h", "s">>,
    <<"m", "l">>, <<"s", "c", "a", "l", "a">>, <<"c", "l", "j">>,
    <<"j", "s", "o", "n">>, <<"y", "a", "m", "l">>, <<"y", "m", "l">>,
    <<"t", "o", "m", "l">>, <<"x", "m", "l">>, <<"h", "t", "m", "l">>,
    <<"c", "s", "s">>, <<"s", "c", "s", "s">>, <<"l", "e", "s", "s">>,
    <<"i", "n", "i">>, <<"c", "f", "g">>, <<"c", "o", "n", "f">>,
    <<"e", "n", "v">>, <<"s", "q", "l">>, <<"r", "s", "t">>,
    <<"t", "x", "t">>>>

\* The four forEach lists that fill FILE_TYPE_MAP.
OrgExts ==
  {<<"o", "r", "g">>, <<"m", "d">>}
DocExts ==
  {<<"m", "d", "x">>, <<"r", "s", "t">>, <<"t", "x", "t">>}
CodeExts ==
  {<<"p", "y">>, <<"j", "s">>, <<"t", "s">>, <<"t", "s", "x">>,
   <<"j", "s", "x">>, <<"r", "s">>, <<"g", "o">>, <<"j", "a", "v", "a">>,
   <<"c">>, <<"c", "p", "p">>, <<"h">>, <<"r", "b">>, <<"p", "h", "p">>,
   <<"s", "w", "i", "f", "t">>, <<"k", "t">>, <<"c", "s">>, <<"s", "h">>,
   <<"b", "a", "s", "h">>, <<"z", "s", "h">>, <<"l", "u", "a">>, <<"r">>,
   <<"p", "l">>, <<"e", "x">>, <<"e", "x", "s">>, <<"h", "s">>, <<"m", "l">>,
   <<"s", "c", "a", "l", "a">>, <<"c", "l", "j">>}
ConfigExts ==
  {<<"j", "s", "o", "n">>, <<"y", "a", "m", "l">>, <<"y", "m", "l">>,
   <<"t", "o", "m", "l">>, <<"x", "m", "l">>, <<"h", "t", "m", "l">>,
   <<"c", "s", "s">>, <<"s", "c", "s", "s">>, <<"l", "e", "s", "s">>,
   <<"i", "n", "i">>, <<"c", "f", "g">>, <<"c", "o", "n", "f">>,
   <<"e", "n", "v">>, <<"s", "q", "l">>}

\* FILE_TYPE_MAP[ext] || "generic"
FILE_TYPE_MAP(ext) ==
  IF ext \in OrgExts THEN "org"
  ELSE IF ext \in DocExts THEN "doc"
  ELSE IF ext \in CodeExts THEN "code"
  ELSE IF ext \in ConfigExts THEN "config"
  ELSE "generic"

\* w occurs in text at position p
startsAt(text, p, w) ==
  p + Len(w) - 1 <= Len(text) /\ SubSeq(text, p, p + Len(w) - 1) = w

\* [\w.*-]+ read from position p: the position after the longest run
RECURSIVE runEnd(_, _)
runEnd(text, p) ==
  IF p <= Len(text) /\ pathChar(text[p]) THEN runEnd(text, p + 1) ELSE p

\* (?:org|md|...) at position p: the alternatives are tried in order from
\* the x-th; the position after the first that matches, 0 when none does.
\* Nothing that follows the group can fail, so a later alternative is never
\* tried once one matched.
RECURSIVE extFrom(_, _, _)
extFrom(text, p, x) ==
  IF x > Len(FILE_REF_EXTS) THEN 0
  ELSE IF startsAt(text, p, FILE_REF_EXTS[x]) THEN p + Len(FILE_REF_EXTS[x])
  ELSE extFrom(text, p, x + 1)

extEnd(text, p) == extFrom(text, p, 1)

\* [\w.*-]+\.(?:...) at position p: the greedy name ends before position j
\* and gives back one character at a time until a dot and an extension
\* follow it; the position after the extension, 0 when there is no match.
RECURSIVE lastDot(_, _, _)
dotExt(text, p, j, ext) == IF ext # 0 THEN ext ELSE lastDot(text, p, j - 1)

lastDot(text, p, j) ==
  IF j <= p THEN 0
  ELSE IF text[j] = "." THEN dotExt(text, p, j, extEnd(text, j + 1))
  ELSE lastDot(text, p, j - 1)

nameEnd(text, p) == lastDot(text, p, runEnd(text, p) - 1)

\* (?:[\w.*-]+\/)* at position p: the positions after 0, 1, 2, ... segments
RECURSIVE segmentEnds(_, _)
segmentsAfter(text, p, e) ==
  IF e > p /\ e <= Len(text) /\ text[e] = "/"
  THEN <<p>> \o segmentEnds(text, e + 1)
  ELSE <<p>>

segmentEnds(text, p) == segmentsAfter(text, p, runEnd(text, p))

RECURSIVE digitsEnd(_, _)
digitsEnd(text, p) ==
  IF p <= Len(text) /\ text[p] \in Digits THEN digitsEnd(text, p + 1) ELSE p

\* (?::\d+)? at position q
lineDigits(q, d) == IF d > q + 1 THEN d ELSE q

lineEnd(text, q) ==
  IF q <= Len(text) /\ text[q] = ":" THEN lineDigits(q, digitsEnd(text, q + 1)) ELSE q

\* FILE_REF_PATTERN anchored at position s: as many segments as leave a
\* name that matches (the k-th end first, then fewer); the position after
\* the match, 0 when there is none.
RECURSIVE mostSegments(_, _, _)
nameAfter(text, ends, k, name) ==
  IF name # 0 THEN lineEnd(text, name) ELSE mostSegments(text, ends, k - 1)

mostSegments(text, ends, k) ==
  IF k = 0 THEN 0 ELSE nameAfter(text, ends, k, nameEnd(text, ends[k]))

allSegments(text, ends) == mostSegments(text, ends, Len(ends))

matchEnd(text, s) == allSegments(text, segmentEnds(text, s))

\* FILE_REF_PATTERN.exec(text) with lastIndex = from - 1: the leftmost
\* match; index 0 stands for null.
RECURSIVE exec(_, _)
matchAt(text, from, end) ==
  IF end # 0 THEN [index |-> from, end |-> end] ELSE exec(text, from + 1)

exec(text, from) ==
  IF from > Len(text) THEN [index |-> 0, end |-> 0]
  ELSE matchAt(text, from, matchEnd(text, from))

\* ref.replace(/:\d+$/, "")
stripLine(ref) ==
  LET ds == {p \in 2..Len(ref) : ref[p - 1] = ":" /\ digitsEnd(ref, p) = Len(ref) + 1}
  IN IF ds = {} THEN ref ELSE SubSeq(ref, 1, (CHOOSE p \in ds : TRUE) - 2)

\* s.split(".").pop() || ""
lastPart(text) ==
  LET dots == {p \in DOMAIN text : text[p] = "."} IN
  IF dots = {} THEN text
  ELSE SubSeq(text, (CHOOSE p \in dots : \A q \in dots : q <= p) + 1, Len(text))

\* The nodes replaceFileRefs builds.  An a carries the path its click
\* listener posts.
TextPiece(text) == [kind |-> "text", fileType |-> "", text |-> text, path |-> <<>>]

\* A variant that makes a link of every match.
refElementAlwaysLink(ref) ==
  [kind |-> "a", fileType |-> FILE_TYPE_MAP(lastPart(stripLine(ref))),
   text |-> ref, path |-> ref]

\* The element made for one match: a.file-ref.file-ref-org with its click
\* listener when fileType is "org", span.file-ref.file-ref-<fileType> else.
refElement(ref) ==
  LET fileType == FILE_TYPE_MAP(lastPart(stripLine(ref))) IN
  IF fileType = "org"
  THEN [kind |-> "a", fileType |-> fileType, text |-> ref, path |-> ref]
  ELSE [kind |-> "span", fileType |-> fileType, text |-> ref, path |-> <<>>]

\* A variant that drops the text after the last match.
restOfTextNone(text, last) == <<>>

\* if (lastIndex < text.length) the text after the last match
restOfText(text, last) ==
  IF last <= Len(text) THEN <<TextPiece(SubSeq(text, last, Len(text)))>> ELSE <<>>

\* The while loop of replaceFileRefs; last is lastIndex + 1.
RECURSIVE replaceLoop(_, _, _)
replaceMatch(text, last, fragment, match) ==
  IF match.index = 0 THEN [fragment |-> fragment, last |-> last]
  ELSE replaceLoop(text, match.end,
         fragment
           \o (IF match.index > last
               THEN <<TextPiece(SubSeq(text, last, match.index - 1))>> ELSE <<>>)
           \o <<refElement(SubSeq(text, match.index, match.end - 1))>>)

replaceLoop(text, last, fragment) == replaceMatch(text, last, fragment, exec(text, last))

\* replaceFileRefs: the nodes that stand where the text node stood.
replaceFileRefs(text) ==
  LET r == replaceLoop(text, 1, <<>>) IN
  IF r.last > 1 THEN r.fragment \o restOfText(text, r.last) ELSE <<TextPiece(text)>>

\* Where a text node may lie: directly in its block, or inside a pre, a
\* code, an a or an element of class file-ref.
Wraps == {"none", "pre", "code", "a", "file-ref"}

\* parent.closest("pre") || closest("code") || closest("a") || closest(".file-ref")
skipped(w) == w \in {"pre", "code", "a", "file-ref"}

\* linkifyFileReferences: every text node that is not skipped and that the
\* pattern matches is handed to replaceFileRefs.
linkifyFileReferences(texts, wraps) ==
  [i \in DOMAIN texts |->
     IF skipped(wraps[i]) THEN <<TextPiece(texts[i])>>
     ELSE IF exec(texts[i], 1).index # 0 THEN replaceFileRefs(texts[i])
     ELSE <<TextPiece(texts[i])>>]

\* --------------------------------------------------------------- the TOC
\* The two glyphs of span.section-toggle.
ToggleExpanded == "U+25BC"
ToggleCollapsed == "U+25B6"

\* The child nodes of heading i: the span.section-toggle that buildSections
\* inserted before the first child, then the nodes of the heading's own text.
headingContent(pcs, i) ==
  <<[cls |-> "section-toggle", text |-> <<ToggleExpanded>>]>>
    \o [x \in DOMAIN pcs[i] |-> [cls |-> pcs[i][x].kind, text |-> pcs[i][x].text]]

\* A variant that leaves the toggle in the clone.
removeToggleNot(content) == content

\* toggleEl = clone.querySelector(".section-toggle"); if (toggleEl) toggleEl.remove()
removeToggle(content) ==
  LET m == {x \in DOMAIN content : content[x].cls = "section-toggle"} IN
  IF m = {} THEN content
  ELSE LET f == CHOOSE x \in m : \A y \in m : x <= y
       IN SubSeq(content, 1, f - 1) \o SubSeq(content, f + 1, Len(content))

\* node.textContent: the text of the child nodes, concatenated
textOf(content) == ConcatAll([x \in DOMAIN content |-> content[x].text])

WhiteSpace == {" "}

\* String.prototype.trim
RECURSIVE trimStart(_)
trimStart(text) ==
  IF text # <<>> /\ Head(text) \in WhiteSpace THEN trimStart(Tail(text)) ELSE text

RECURSIVE trimEnd(_)
trimEnd(text) ==
  IF text # <<>> /\ text[Len(text)] \in WhiteSpace
  THEN trimEnd(SubSeq(text, 1, Len(text) - 1))
  ELSE text

trim(text) == trimEnd(trimStart(text))

\* buildToc: one a.toc-item per .section-heading, carrying the heading's
\* data-toc-id, its level and the trimmed text of its clone without the
\* toggle; the item's click listener scrolls to the heading it was made for.
\* Nothing when there is no heading.
buildToc(d, heads, ids, kids, pcs) ==
  LET hs == sectionHeadings(d, heads) IN
  [x \in DOMAIN hs |->
     [id |-> ids[hs[x].i],
      level |-> headingLevel(kids[hs[x].i]),
      text |-> trim(textOf(removeToggle(headingContent(pcs, hs[x].i)))),
      heading |-> hs[x].i]]

\* A variant of buildToc without its early return.
insertsTocPanelAlways(hs) == TRUE

\* buildToc: if (headings.length === 0) return; otherwise the nav is
\* inserted and the body gets class has-toc.
insertsTocPanel(hs) == Len(hs) # 0

\* setupScrollSpy: if (headings.length === 0) return; otherwise the scroll
\* listener is registered.
registersScrollSpy(hs) == Len(hs) # 0

\* ------------------------------------------------------------- scroll spy
\* The tolerance added to the sticky offset in updateActiveTocItem.
SpyTolerance == 10

\* A variant that ignores the heading's own sticky offset.
isAboveLineNoSticky(top, sticky) == top <= SpyTolerance

\* rect.top <= stickyTop + 10
isAboveLine(top, sticky) == top <= sticky + SpyTolerance

\* The for loop of updateActiveTocItem: the last heading of the NodeList
\* that satisfies the test; 0 stands for null.
currentHeading(hs, tops, sticky) ==
  LET c == {x \in DOMAIN hs : isAboveLine(tops[hs[x].i], sticky[hs[x].i])}
  IN IF c = {} THEN 0 ELSE hs[CHOOSE x \in c : \A y \in c : y <= x].i

\* updateActiveTocItem: clears class active everywhere, then marks the first
\* .toc-item whose data-toc-id is that of the current heading.
updateActiveTocItem(hs, tops, sticky, ids, items) ==
  LET current == currentHeading(hs, tops, sticky) IN
  IF current = 0 THEN {}
  ELSE LET m == {x \in DOMAIN items : items[x].id = ids[current]}
       IN IF m = {} THEN {} ELSE {CHOOSE x \in m : \A y \in m : x <= y}

\* The scroll listener: schedules one callback unless one is pending.
scrollHandlerNoGuard(t, q) == [ticking |-> TRUE, rafQueue |-> q + 1]

scrollHandler(t, q) ==
  IF ~t THEN [ticking |-> TRUE, rafQueue |-> q + 1]
  ELSE [ticking |-> t, rafQueue |-> q]

\* ------------------------------------------------------- collapse / expand
\* (e.target as HTMLElement).closest("a")
insideLink(e) == e.kind \in {"link", "fileRefLink"}
\* (e.target as HTMLElement).closest(".file-ref")
insideFileRef(e) == e.kind \in {"fileRefLink", "fileRefSpan"}

\* A variant of toggleSection that leaves the Section's class alone.
toggleSectionBodyOnly(c, i) ==
  LET collapsed == i \notin c.body IN
  [body |-> IF collapsed THEN c.body \cup {i} ELSE c.body \ {i},
   toggle |-> [c.toggle EXCEPT ![i] = IF collapsed THEN ToggleCollapsed ELSE ToggleExpanded],
   section |-> c.section]

\* body.classList.toggle("collapsed"), the glyph, section.classList.toggle
toggleSection(c, i) ==
  LET collapsed == i \notin c.body IN
  [body |-> IF collapsed THEN c.body \cup {i} ELSE c.body \ {i},
   toggle |-> [c.toggle EXCEPT ![i] = IF collapsed THEN ToggleCollapsed ELSE ToggleExpanded],
   section |-> IF collapsed THEN c.section \cup {i} ELSE c.section \ {i}]

\* A variant of the heading's listener without the two early returns.
headingClickNoGuard(c, d, i, e) ==
  IF Body(i) \in Range(d[Sec(i)]) THEN toggleSection(c, i) ELSE c

\* The click listener buildSections puts on heading i.
headingClick(c, d, i, e) ==
  IF insideLink(e) THEN c
  ELSE IF insideFileRef(e) THEN c
  ELSE IF Body(i) \in Range(d[Sec(i)]) THEN toggleSection(c, i)
  ELSE c

\* The while loop of setupAnchorLinks: expand every collapsed section from
\* the target's closest section upwards.
RECURSIVE expandAncestors(_, _, _)
expandAncestors(c, d, ancestor) ==
  IF ancestor = Article THEN c
  ELSE LET i == ancestor.i
           c1 == IF i \in c.body
                 THEN [body |-> c.body \ {i},
                       section |-> c.section \ {i},
                       toggle |-> [c.toggle EXCEPT ![i] = ToggleExpanded]]
                 ELSE c
       IN expandAncestors(c1, d, parentSection(d, ancestor))

\* The document's click listener of setupAnchorLinks.  e.internal: the href
\* starts with "#"; e.target: the original child holding the element with
\* that id, 0 when the id is empty or names no element.
anchorClick(c, d, e) ==
  IF ~insideLink(e) THEN c
  ELSE IF ~e.internal THEN c
  ELSE IF e.target = 0 THEN c
  ELSE expandAncestors(c, d, closestSection(d, El(e.target)))

\* target.scrollIntoView at the end of the document's click listener: the
\* child scrolled to, or the one scrolled to before when the listener
\* returned early.
anchorScroll(at, e) ==
  IF insideLink(e) /\ e.internal /\ e.target # 0 /\ e.kind # "fileRefLink"
  THEN e.target ELSE at

\* The click listener of a.toc-item x: heading.scrollIntoView.  The item has
\* no href, so the document's click listener returns early.
tocItemClick(items, x) == items[x].heading

\* The node of child e.at the click is on: e.piece, or for a click that
\* names none the first node of its kind; 0 when there is no such node.
targetPiece(pcs, e) ==
  IF e.piece # 0 THEN e.piece
  ELSE LET k == IF e.kind = "fileRefLink" THEN "a"
                ELSE IF e.kind = "fileRefSpan" THEN "span" ELSE "text"
           m == {x \in DOMAIN pcs[e.at] : pcs[e.at][x].kind = k}
       IN IF m = {} THEN 0 ELSE CHOOSE x \in m : \A y \in m : x <= y

\* A variant of the link's listener that posts nothing.
linkClickSilent(outbox, pcs, e) == outbox

\* The click listener of an a.file-ref made by replaceFileRefs:
\* vscode.postMessage({ command: "openFile", path: ref })
linkClick(outbox, pcs, e) ==
  IF e.kind = "fileRefLink"
  THEN Append(outbox, [command |-> "openFile", path |-> pcs[e.at][targetPiece(pcs, e)].path])
  ELSE outbox

\* Dispatch of one click: the target's own listener (a.file-ref stops the
\* propagation), then the enclosing heading's, then the document's.
dispatchClick(c, d, heads, e) ==
  IF e.kind = "fileRefLink" THEN c
  ELSE LET c1 == IF e.at \in heads THEN headingClick(c, d, e.at, e) ELSE c
       IN anchorClick(c1, d, e)

\* ------------------------------------------------------------ orgToHtml
\* Strings are sequences of one-character strings.
Amp == <<"&", "a", "m", "p", ";">>
Lt == <<"&", "l", "t", ";">>
Gt == <<"&", "g", "t", ";">>

\* text.replace(/ch/g, by)
RECURSIVE replaceAll(_, _, _)
replaceAll(text, ch, by) ==
  IF text = <<>> THEN <<>>
  ELSE (IF Head(text) = ch THEN by ELSE <<Head(text)>>) \o replaceAll(Tail(text), ch, by)

\* A variant that replaces & after < and >.
escapeHtmlAmpLast(text) ==
  replaceAll(replaceAll(replaceAll(text, "<", Lt), ">", Gt), "&", Amp)

\* escapeHtml: & first, then <, then >
escapeHtml(text) ==
  replaceAll(replaceAll(replaceAll(text, "&", Amp), "<", Lt), ">", Gt)

\* err instanceof Error ? err.message : String(err)
errorMessage(err) == IF err.isError THEN err.message ELSE err.string

\* The fragment of the catch block: the h3 and the pre with the message.
errorFragment(message) ==
  [kind |-> "error", heading |-> "Org Preview Error", pre |-> escapeHtml(message)]

\* The body of orgToHtml once processor.process has settled: String(result)
\* when it fulfilled, the catch block when any stage threw.
orgToHtmlSettle(text, outcome) ==
  IF outcome.ok
  THEN [status |-> "resolved", text |-> text, settled |-> outcome,
        value |-> [kind |-> "markup", of |-> text]]
  ELSE [status |-> "resolved", text |-> text, settled |-> outcome,
        value |-> errorFragment(errorMessage(outcome.thrown))]

\* --------------------------------------------------- the metadata plugin
Null == "null"
Undefined == "undefined"

\* A timestamp object, and null where a node has none.
NoTimestamp == [present |-> FALSE, rawValue |-> <<>>]
Timestamp(raw) == [present |-> TRUE, rawValue |-> raw]

\* The fields the plugin reads or writes, as a node has them when the parser
\* sets none.  A missing children array stands as the empty one and a
\* missing string as the empty string, which the plugin's tests (&&, ||)
\* do not tell apart; time is the value of a clock node.  affiliated,
\* contentsBegin and contentsEnd are constants the plugin never reads and
\* are left out.
OrgBase ==
  [type |-> "", checkbox |-> Null, value |-> <<>>, children |-> <<>>,
   key |-> Undefined, name |-> <<>>, contents |-> <<>>,
   scheduled |-> NoTimestamp, deadline |-> NoTimestamp, closed |-> NoTimestamp,
   time |-> NoTimestamp, duration |-> <<>>, status |-> Undefined]

OrgNode(t, cb, v, ks) ==
  [OrgBase EXCEPT !.type = t, !.checkbox = cb, !.value = v, !.children = ks]
HastNode(t, v, ks) == [type |-> t, value |-> v, children |-> ks]

\* node.checkbox === "on" ? "☑ " : "off" ? "☐ " : "trans" ? "☒ " : ""
checkboxSymbol(cb) ==
  IF cb = "on" THEN "U+2611 "
  ELSE IF cb = "off" THEN "U+2610 "
  ELSE IF cb = "trans" THEN "U+2612 "
  ELSE ""

\* children.unshift(x)
unshift(ks, x) == <<x>> \o ks

SymbolText(symbol) == OrgNode("text", Null, symbol, <<>>)

\* The if block of addCheckboxes on one list item: where the symbol goes.
injectCheckbox(node) ==
  LET symbol == checkboxSymbol(node.checkbox) IN
  IF node.type = "list-item" /\ node.checkbox # Null
     /\ symbol # "" /\ Len(node.children) > 0
  THEN LET first == node.children[1] IN
       IF first.type = "paragraph" /\ Len(first.children) > 0
       THEN [node EXCEPT !.children[1].children = unshift(@, SymbolText(symbol))]
       ELSE IF first.type = "list-item-tag"
       THEN IF Len(first.children) > 0
            THEN [node EXCEPT !.children[1].children = unshift(@, SymbolText(symbol))]
            ELSE node
       ELSE [node EXCEPT !.children =
               unshift(@, OrgNode("paragraph", Null, Undefined, <<SymbolText(symbol)>>))]
  ELSE node

\* addCheckboxes: the node itself, then every child.
RECURSIVE addCheckboxes(_)
addCheckboxes(node) ==
  LET n == injectCheckbox(node) IN
  [n EXCEPT !.children = [x \in DOMAIN n.children |-> addCheckboxes(n.children[x])]]

\* Strings of the plugin are sequences of characters; a literal of the
\* source that holds no colon and no blank (a key, SCHEDULED) is one element.
Text(v) == [OrgBase EXCEPT !.type = "text", !.value = v]
Bold(v) == [OrgBase EXCEPT !.type = "bold", !.children = <<Text(v)>>]
Code(v) == [OrgBase EXCEPT !.type = "code", !.value = v]
Paragraph(ks) == [OrgBase EXCEPT !.type = "paragraph", !.children = ks]
LineBreak == [OrgBase EXCEPT !.type = "line-break"]

displayKeys ==
  {"TITLE", "AUTHOR", "DATE", "EMAIL", "DESCRIPTION", "CATEGORY", "FILETAGS", "LANGUAGE"}

\* makeMetaBlock: bold key + ": ", then value + "\n"
makeMetaBlock(key, value) ==
  Paragraph(<<Bold(<<key, ":", " ">>), Text(value \o <<"\n">>)>>)

\* part.split(":")[0]
beforeColon(part) ==
  LET colons == {p \in DOMAIN part : part[p] = ":"} IN
  IF colons = {} THEN part
  ELSE SubSeq(part, 1, (CHOOSE p \in colons : \A q \in colons : p <= q) - 1)

\* part.substring(n)
substring(part, n) == SubSeq(part, n + 1, Len(part))

\* A variant that puts the timestamp in plain text.
planningPartPlain(part, i) ==
  LET label == beforeColon(part) \o <<":", " ">>
  IN (IF i > 1 THEN <<Text(<<" ", " ">>)>> ELSE <<>>)
       \o <<Bold(label), Text(substring(part, Len(label)))>>

\* One iteration of the loop of makePlanningBlock over parts[i].
planningPart(part, i) ==
  LET label == beforeColon(part) \o <<":", " ">>
  IN (IF i > 1 THEN <<Text(<<" ", " ">>)>> ELSE <<>>)
       \o <<Bold(label), Code(substring(part, Len(label)))>>

makePlanningBlock(parts) ==
  Paragraph(ConcatAll([i \in DOMAIN parts |-> planningPart(parts[i], i)])
              \o <<Text(<<"\n">>)>>)

\* The parts of the planning case, in the order of its three ifs.
planningParts(node) ==
  (IF node.scheduled.present
   THEN <<(<<"SCHEDULED", ":", " ">> \o node.scheduled.rawValue)>> ELSE <<>>)
  \o (IF node.deadline.present
      THEN <<(<<"DEADLINE", ":", " ">> \o node.deadline.rawValue)>> ELSE <<>>)
  \o (IF node.closed.present
      THEN <<(<<"CLOSED", ":", " ">> \o node.closed.rawValue)>> ELSE <<>>)

\* (node.children || []).filter(c => c.type === "node-property")
nodeProperties(node) == SelectSeq(node.children, LAMBDA c : c.type = "node-property")

makePropertyDrawer(props) ==
  Paragraph(<<Bold(<<"Properties">>), LineBreak>>
    \o ConcatAll([i \in DOMAIN props |->
          <<Code(<<props[i].key>>), Text(<<":", " ">> \o props[i].value), LineBreak>>]))

makeClockEntry(timeStr, duration, status) ==
  Paragraph(<<Bold(<<"CLOCK", ":", " ">>), Code(timeStr)>>
    \o (IF duration # <<>> THEN <<Text(<<" ", "=>", " ">>), Code(duration)>> ELSE <<>>)
    \o (IF status # <<>> THEN <<Text(status)>> ELSE <<>>)
    \o <<Text(<<"\n">>)>>)

\* The clock case, also used for the clocks inside a drawer.
clockEntry(node) ==
  makeClockEntry(IF node.time.present THEN node.time.rawValue ELSE <<>>,
                 node.duration,
                 IF node.status = "running" THEN <<" ", "(running)">> ELSE <<>>)

\* One child of a drawer in makeCustomDrawer.
drawerChild(child) ==
  IF child.type = "clock" THEN <<clockEntry(child)>>
  ELSE IF child.type = "property-drawer"
  THEN IF nodeProperties(child) # <<>>
       THEN <<makePropertyDrawer(nodeProperties(child))>> ELSE <<>>
  ELSE <<child>>

makeCustomDrawer(name, node) ==
  <<Paragraph(<<Bold(name), Text(<<"\n">>)>>)>>
    \o ConcatAll([i \in DOMAIN node.children |-> drawerChild(node.children[i])])

\* A variant of the latex-fragment test that takes any fragment as display
\* math.
isDisplayMathAlways(node) == TRUE

\* node.value && node.value.startsWith("$$")
isDisplayMath(node) ==
  node.value # <<>> /\ startsAt(node.value, 1, <<"$", "$">>)

\* A variant of the keyword test that ignores the key.
isDisplayKeyAlways(key) == TRUE

\* displayKeys.has(node.key)
isDisplayKey(key) == key \in displayKeys

\* visitNode: the switch on node.type; the cases that build replacements
\* return them when there are any and [node] otherwise.
visitNode(node) ==
  LET replacements ==
        IF node.type = "keyword"
        THEN IF isDisplayKey(node.key) THEN <<makeMetaBlock(node.key, node.value)>> ELSE <<>>
        ELSE IF node.type = "planning"
        THEN IF planningParts(node) # <<>>
             THEN <<makePlanningBlock(planningParts(node))>> ELSE <<>>
        ELSE IF node.type = "property-drawer"
        THEN IF nodeProperties(node) # <<>>
             THEN <<makePropertyDrawer(nodeProperties(node))>> ELSE <<>>
        ELSE IF node.type = "drawer" THEN makeCustomDrawer(node.name, node)
        ELSE IF node.type = "clock" THEN <<clockEntry(node)>>
        ELSE <<>>
  IN IF node.type = "latex-fragment"
     THEN IF isDisplayMath(node)
          THEN <<[OrgBase EXCEPT !.type = "latex-environment", !.value = trim(node.contents)]>>
          ELSE <<node>>
     ELSE IF node.type \in {"keyword", "planning", "property-drawer", "drawer", "clock"}
     THEN IF replacements # <<>> THEN replacements ELSE <<node>>
     ELSE <<node>>

\* transformTree: replace the children by their visitNode results, then
\* recurse into the new children.
RECURSIVE transformTree(_)
transformTree(node) ==
  LET newChildren == ConcatAll([x \in DOMAIN node.children |-> visitNode(node.children[x])])
  IN [node EXCEPT !.children = [x \in DOMAIN newChildren |-> transformTree(newChildren[x])]]

\* uniorgMetadata: transformTree(tree), then addCheckboxes(tree)
uniorgMetadata(tree) == addCheckboxes(transformTree(tree))

\* ------------------------------------------------ rehypeCleanUnknownNodes
knownTypes == {"root", "element", "text", "comment", "doctype", "raw"}

\* clean: every child of an unknown type becomes a text node (string value),
\* its own children mapped through clean (spliced in by flat()), or nothing;
\* every known child is cleaned recursively.
RECURSIVE clean(_)
cleanChild(child) ==
  IF child.type \notin knownTypes
  THEN IF child.value # Undefined
       THEN <<HastNode("text", child.value, <<>>)>>
       ELSE [x \in DOMAIN child.children |-> clean(child.children[x])]
  ELSE <<clean(child)>>

clean(node) ==
  [node EXCEPT !.children = ConcatAll([x \in DOMAIN node.children |-> cleanChild(node.children[x])])]

\* ------------------------------------------------ the shared processor
passthroughNodeTypes ==
  {"export-snippet", "export-block", "inline-src-block", "statistics-cookie",
   "diary-sexp", "citation", "citation-reference", "citation-common-prefix",
   "citation-common-suffix", "citation-prefix", "citation-suffix", "citation-key"}

\* const processor = unified().use(...): the module-level state, as built
\* when the module is loaded.
processorBuilt ==
  [knownTypes |-> knownTypes, passthroughNodeTypes |-> passthroughNodeTypes]

\* uniorg-parse on the sample texts (a library stage: a fixed function of
\* the text).
uniorgParse(text) ==
  IF text = "* A"
  THEN OrgNode("org-data", Null, Undefined,
         <<OrgNode("section", Null, Undefined,
             <<OrgNode("headline", Null, Undefined, <<OrgNode("text", Null, "A", <<>>)>>)>>)>>)
  ELSE IF text = "- [X] done"
  THEN OrgNode("org-data", Null, Undefined,
         <<OrgNode("plain-list", Null, Undefined,
             <<OrgNode("list-item", "on", Undefined,
                 <<OrgNode("paragraph", Null, Undefined,
                     <<OrgNode("text", Null, "done", <<>>)>>)>>)>>)>>)
  ELSE IF text = "[cite:@k]"
  THEN OrgNode("org-data", Null, Undefined,
         <<OrgNode("paragraph", Null, Undefined,
             <<OrgNode("citation", Null, Undefined,
                 <<OrgNode("citation-reference", Null, Undefined,
                     <<OrgNode("citation-key", Null, "k", <<>>)>>)>>)>>)>>)
  ELSE OrgNode("org-data", Null, Undefined, <<>>)

\* uniorg-rehype (a library stage: a fixed function of the tree): text stays
\* text, the types of passthroughNodeTypes are left unconverted, every other
\* node becomes an element.
RECURSIVE uniorg2rehype(_)
uniorg2rehype(node) ==
  HastNode(IF node.type = "org-data" THEN "root"
           ELSE IF node.type = "text" \/ node.type \in passthroughNodeTypes THEN node.type
           ELSE "element",
           node.value,
           [x \in DOMAIN node.children |-> uniorg2rehype(node.children[x])])

\* rehype-raw with passThrough (a library stage): a tree without raw nodes
\* comes back node for node.
RECURSIVE rehypeRaw(_)
rehypeRaw(node) ==
  HastNode(node.type, node.value, [x \in DOMAIN node.children |-> rehypeRaw(node.children[x])])

\* rehype-stringify and String(result): the markup of the tree.
rehypeStringify(tree) == [kind |-> "markup", of |-> tree]

\* What the stage-th plugin of the processor makes of the value in flight.
stageOutput(stage, data) ==
  CASE stage = 1 -> uniorgParse(data)
    [] stage = 2 -> uniorgMetadata(data)
    [] stage = 3 -> uniorg2rehype(data)
    [] stage = 4 -> rehypeRaw(data)
    [] stage = 5 -> clean(data)
    [] stage = 6 -> rehypeStringify(data)

\* A variant in which the sanitizer remembers in its closure that it met a
\* citation and leaves the tree alone from then on.
processStageRemembering(state, run) ==
  IF run.at + 1 = 5
  THEN [state |-> [state EXCEPT !.knownTypes = @ \cup {"citation"}],
        run |-> [run EXCEPT !.at = @ + 1,
                            !.data = IF "citation" \in state.knownTypes
                                     THEN run.data ELSE clean(run.data)]]
  ELSE [state |-> state,
        run |-> [run EXCEPT !.at = @ + 1, !.data = stageOutput(run.at + 1, run.data)]]

\* One plugin of processor.process(orgText) runs for one invocation: it
\* reads the value in flight of that invocation and writes nothing else.
processStage(state, run) ==
  [state |-> state,
   run |-> [run EXCEPT !.at = @ + 1, !.data = stageOutput(run.at + 1, run.data)]]

\* ----------------------------------------------------------- view toggle
\* The three views by the data-view of their buttons: the article, the doc
\* map container, the template container.
Views == {"preview", "docmap", "template"}

CopyLabel == "Copy to Clipboard"
CopiedLabel == "Copied!"

\* The page before buildViewToggle: no buttons, no containers, the module's
\* docMapLoaded, templateLoaded and templateRawOrg as declared.  copyBtn is
\* the text of .template-copy-btn (null: no such button) and resets the
\* number of pending timeouts that will restore it.  clicks counts the clicks
\* on each button and templateReceived says whether a templateData message
\* was handled (neither is kept by the code; the properties read them).
NoViewToggle ==
  [active |-> {},
   display |-> [v \in Views |-> IF v = "preview" THEN "" ELSE "absent"],
   docMapLoaded |-> FALSE,
   templateLoaded |-> FALSE,
   templateRawOrg |-> "",
   docMap |-> "absent",
   copyBtn |-> Null,
   resets |-> 0,
   clicks |-> [v \in Views |-> 0],
   templateReceived |-> FALSE]

buildViewToggle(t) ==
  [t EXCEPT !.active = {"preview"},
            !.display = [v \in Views |-> IF v = "preview" THEN "" ELSE "none"],
            !.docMap = "loading"]

activateTab(t, activeBtn) ==
  [t EXCEPT !.active = (@ \ Views) \cup {activeBtn},
            !.display = [v \in Views |-> "none"]]

\* The click listeners of the three buttons: the tabs and the outbox after.
previewBtnClick(t, outbox) ==
  [tabs |-> [activateTab(t, "preview") EXCEPT !.display["preview"] = ""],
   posted |-> outbox]

\* A variant of the Doc Map listener without the docMapLoaded test.
mapBtnClickAlways(t, outbox) ==
  [tabs |-> [activateTab(t, "docmap") EXCEPT !.display["docmap"] = "", !.docMapLoaded = TRUE],
   posted |-> Append(outbox, [command |-> "scanDocFiles"])]

mapBtnClick(t, outbox) ==
  LET t1 == [activateTab(t, "docmap") EXCEPT !.display["docmap"] = ""] IN
  IF ~t1.docMapLoaded
  THEN [tabs |-> [t1 EXCEPT !.docMapLoaded = TRUE],
        posted |-> Append(outbox, [command |-> "scanDocFiles"])]
  ELSE [tabs |-> t1, posted |-> outbox]

templateBtnClick(t, outbox) ==
  LET t1 == [activateTab(t, "template") EXCEPT !.display["template"] = ""] IN
  IF ~t1.templateLoaded
  THEN [tabs |-> [t1 EXCEPT !.templateLoaded = TRUE],
        posted |-> Append(outbox, [command |-> "getTemplate"])]
  ELSE [tabs |-> t1, posted |-> outbox]

tabClick(t, outbox, btn) ==
  IF btn = "preview" THEN previewBtnClick(t, outbox)
  ELSE IF btn = "docmap" THEN mapBtnClick(t, outbox)
  ELSE templateBtnClick(t, outbox)

\* renderTemplate: the container gets the copy bar with a new button.
renderTemplate(t) == [t EXCEPT !.copyBtn = CopyLabel, !.resets = 0]

\* The message listener of setupMessageListener.
onMessage(t, message) ==
  IF message.command = "docFileMap" THEN [t EXCEPT !.docMap = "rendered"]
  ELSE IF message.command = "templateData"
  THEN renderTemplate([t EXCEPT !.templateRawOrg = message.raw])
  ELSE IF message.command = "clipboardCopied"
  THEN IF t.copyBtn # Null THEN [t EXCEPT !.copyBtn = CopiedLabel, !.resets = @ + 1] ELSE t
  ELSE t

\* The click listener renderTemplate puts on the copy button.
copyBtnClick(t, outbox) ==
  Append(outbox, [command |-> "copyToClipboard", text |-> t.templateRawOrg])

\* ------------------------------------------------- the preview manager
\* The documents of the workspace and their language ids.  A document
\* stands for its uri.toString() and for its file name.
Documents == {"a.org", "b.md", "c.txt"}
languageId(doc) ==
  IF doc = "a.org" THEN "org" ELSE IF doc = "b.md" THEN "markdown" ELSE "plaintext"

SUPPORTED_LANGUAGES == {"org", "markdown"}
isSupported(doc) == languageId(doc) \in SUPPORTED_LANGUAGES

\* At most MaxPanels webview panels are created and at most MaxUpdates
\* updates started; panel 0 stands for null / undefined.
MaxPanels == 2
MaxUpdates == 3
PanelIds == 1..MaxPanels

\* A webview panel: whether it exists and is open, the key its onDidDispose
\* callback closed over, its title and its webview.html.  shows is the
\* document the manager last gave the panel to and latest the update last
\* started for it (neither is a field of the code; the properties read them).
NoHtml == [doc |-> Null, version |-> 0, update |-> 0]
NoWebviewPanel ==
  [state |-> "none", key |-> Null, title |-> Null, html |-> NoHtml,
   shows |-> Null, latest |-> NoHtml]

\* new PreviewManager(extensionUri)
NewPreviewManager ==
  [panels |-> [d \in Documents |-> 0],
   followPanel |-> 0,
   followKey |-> Null,
   panel |-> [p \in PanelIds |-> NoWebviewPanel],
   inflight |-> {},
   started |-> 0,
   updated |-> [d \in Documents |-> -1]]

\* What an update will write once its render is there.
rendered(u) == [doc |-> u.doc, version |-> u.version, update |-> u.update]

\* update up to its await: document.getText() is read and orgToHtml called.
\* updated[doc] records the version of the text the update started from.
update(m, txt, p, document) ==
  [m EXCEPT !.inflight = @ \cup {[update |-> m.started + 1, panel |-> p,
                                   doc |-> document, version |-> txt[document]]},
            !.started = @ + 1,
            !.panel[p].latest =
               [doc |-> document, version |-> txt[document], update |-> m.started + 1],
            !.updated[document] = txt[document]]

\* update after its await: the title and webview.html are set.  On a
\* disposed panel the assignment throws and nothing changes.
settle(m, u) ==
  IF m.panel[u.panel].state = "open"
  THEN [m EXCEPT !.inflight = @ \ {u},
                 !.panel[u.panel].title = u.doc,
                 !.panel[u.panel].html = rendered(u)]
  ELSE [m EXCEPT !.inflight = @ \ {u}]

\* if (this.followKey) this.panels.delete(this.followKey);
\* this.panels.set(key, this.followPanel); this.followKey = key;
rekeyFollowPanel(m, key) ==
  [m EXCEPT !.panels = [(IF m.followKey # Null THEN [@ EXCEPT ![m.followKey] = 0] ELSE @)
                          EXCEPT ![key] = m.followPanel],
            !.followKey = key,
            !.panel[m.followPanel].shows = key]

\* The panel createWebviewPanel returns: the first not yet created.
newPanel(m) == CHOOSE p \in PanelIds :
  m.panel[p].state = "none" /\ \A q \in PanelIds : m.panel[q].state = "none" => p <= q

\* show from createWebviewPanel on.
createPanel(m, txt, document, beside) ==
  LET p == newPanel(m)
      m1 == [m EXCEPT !.panels[document] = p,
                      !.panel[p] = [state |-> "open", key |-> document, title |-> document,
                                    html |-> NoHtml, shows |-> document, latest |-> NoHtml]]
      m2 == IF beside THEN [m1 EXCEPT !.followPanel = p, !.followKey = document] ELSE m1
  IN update(m2, txt, p, document)

\* PreviewManager.show (reveal changes no state of the manager)
show(m, txt, document, beside) ==
  IF m.panels[document] # 0 THEN update(m, txt, m.panels[document], document)
  ELSE IF beside /\ m.followPanel # 0
  THEN update(rekeyFollowPanel(m, document), txt, m.followPanel, document)
  ELSE createPanel(m, txt, document, beside)

\* PreviewManager.updateIfVisible
updateIfVisible(m, txt, document) ==
  IF m.panels[document] # 0 THEN update(m, txt, m.panels[document], document) ELSE m

\* PreviewManager.followActiveEditor
followActiveEditor(m, txt, document) ==
  IF m.followPanel = 0 THEN m
  ELSE IF m.followKey = document THEN m
  ELSE update(rekeyFollowPanel(m, document), txt, m.followPanel, document)

\* The panel is closed and its onDidDispose callback runs with the key of
\* its creation.
dispose(m, p) ==
  LET m1 == [m EXCEPT !.panel[p].state = "disposed", !.panels[m.panel[p].key] = 0] IN
  IF m.followPanel = p THEN [m1 EXCEPT !.followPanel = 0, !.followKey = Null] ELSE m1

\* ------------------------------------------------------------------ inputs
Docs(n) == UNION {[1..m -> Tags] : m \in 0..n}

\* Flow layout at scroll position 0: each child below the ones before it.
RECURSIVE flowTop(_, _)
flowTop(h, i) == IF i <= 1 THEN 0 ELSE flowTop(h, i - 1) + h[i - 1]

\* getBoundingClientRect().top values a scroll may leave a heading with.
RectTops == {10, 31}

\* The click events on the article: where the target lies (at), what it is
\* inside of (kind), and for a link whether its href starts with "#"
\* (internal) and which original child holds the element it names (target,
\* 0 for none).
ClickEvent(i, k, int, t) ==
  [at |-> i, kind |-> k, internal |-> int, target |-> t, piece |-> 0]

\* What a click on node x of child i is inside of: a link or a span made by
\* replaceFileRefs, or text that lies in a link or a tagged element of the
\* source markup.
targetKind(pcs, wraps, i, x) ==
  IF pcs[i][x].kind = "a" THEN "fileRefLink"
  ELSE IF pcs[i][x].kind = "span" THEN "fileRefSpan"
  ELSE IF wraps[i] = "a" THEN "link"
  ELSE IF wraps[i] = "file-ref" THEN "fileRefSpan"
  ELSE "text"

\* The click on node x of child i.
PieceClick(pcs, wraps, i, x) ==
  [at |-> i, kind |-> targetKind(pcs, wraps, i, x), internal |-> FALSE,
   target |-> 0, piece |-> x]

PieceClicks(pcs, wraps) ==
  {PieceClick(pcs, wraps, i, x) : <<i, x>> \in
     UNION {{<<j, y>> : y \in DOMAIN pcs[j]} : j \in DOMAIN pcs}}

\* The event can happen: the document holds the node it is on.
clickable(pcs, wraps, e) ==
  IF e.piece # 0
  THEN e.piece \in DOMAIN pcs[e.at] /\ e.kind = targetKind(pcs, wraps, e.at, e.piece)
  ELSE e.kind \in {"fileRefLink", "fileRefSpan"} => targetPiece(pcs, e) # 0

ClickEventsAt(i, n) ==
  {ClickEvent(i, k, FALSE, 0) : k \in {"text", "link", "fileRefLink", "fileRefSpan"}}
    \cup {ClickEvent(i, "link", TRUE, t) : t \in 0..n}

ClickEvents(n) == UNION {ClickEventsAt(i, n) : i \in 1..n}

\* The text of a child of the models that do not look at text.
PlainText == <<"a">>

\* The document before DOMContentLoaded: its top-level children, their
\* layout, the text of the headings and of the other children, and what
\* their text nodes lie inside of.
InitViewDoc(docs, heights, headingTexts, otherTexts, wraps) ==
  /\ children \in docs
  /\ offsetHeight \in [DOMAIN children -> heights]
  /\ textContent \in [DOMAIN children -> headingTexts \cup otherTexts]
  /\ \A i \in DOMAIN children :
       textContent[i] \in (IF headingLevel(children[i]) = 0 THEN otherTexts ELSE headingTexts)
  /\ wrap \in [DOMAIN children -> wraps]
  /\ pieces = [i \in DOMAIN children |-> <<TextPiece(textContent[i])>>]
  /\ tocPanel = FALSE
  /\ scrolledTo = 0
  /\ posted = <<>>
  /\ tabs = NoViewToggle
  /\ \A i \in DOMAIN children : headingLevel(children[i]) = 0 => offsetHeight[i] = 20
  /\ rectTop = [i \in DOMAIN children |-> flowTop(offsetHeight, i)]
  /\ phase = "parsed"
  /\ dom = (Article :> [i \in DOMAIN children |-> El(i)])
  /\ sectionHeading = {}
  /\ stickyTop = <<>>
  /\ tocId = <<>>
  /\ toc = <<>>
  /\ tocActive = {}
  /\ classes = [body |-> {}, section |-> {}, toggle |-> <<>>]
  /\ scrollListener = FALSE
  /\ ticking = FALSE
  /\ rafQueue = 0

InitViewText(maxLen, heights, texts) ==
  InitViewDoc(Docs(maxLen), heights, texts, {PlainText}, {"none"})

InitView(maxLen, heights) == InitViewText(maxLen, heights, {PlainText})

\* Longest failure message of the pipeline model.
MaxMsgLen == 2
MsgChars == {"&", "<", ">", "a"}
Messages == UNION {[1..m -> MsgChars] : m \in 0..MaxMsgLen}

\* The unified stages: parse, metadata, rehype, raw, clean, stringify.
Stages == 1..6

\* What a stage may throw: an Error with a message, or a bare string.
Thrown ==
  {[isError |-> TRUE, message |-> m, string |-> <<>>] : m \in Messages}
    \cup {[isError |-> FALSE, message |-> <<>>, string |-> m] : m \in Messages}

\* How processor.process settles: fulfilled, or rejected by a stage's throw.
Outcomes ==
  {[ok |-> TRUE, stage |-> 0, thrown |-> [isError |-> TRUE, message |-> <<>>, string |-> <<>>]]}
    \cup {[ok |-> FALSE, stage |-> st, thrown |-> t] : st \in Stages, t \in Thrown}

OrgTexts == {"", "* A", "- [X] done"}

\* Overlapping invocations: at most MaxRuns calls of orgToHtml.
MaxRuns == 2
RunIds == 1..MaxRuns
RunTexts == OrgTexts \cup {"[cite:@k]"}

IdleRun == [status |-> "idle", text |-> "", at |-> 0, data |-> "", value |-> "", overlap |-> FALSE]

InitRunsIdle == runs = [r \in RunIds |-> IdleRun] /\ processor = processorBuilt

InitPipeIdle == call = [status |-> "idle"] /\ InitRunsIdle

\* Lists of checkbox items: at most MaxItemKids blocks per item, at most
\* MaxParaText text nodes per paragraph or tag, lists nested ListDepth deep.
MaxItemKids == 2
MaxParaText == 1
ListDepth == 1

Texts(n) == [x \in 1..n |-> OrgNode("text", Null, "x", <<>>)]

Blocks ==
  {OrgNode(t, Null, Undefined, Texts(n)) : t \in {"paragraph", "list-item-tag"}, n \in 0..MaxParaText}
    \cup {OrgNode("src-block", Null, "code", <<>>)}

Checkboxes == {Null, "on", "off", "trans"}

RECURSIVE ListItems(_)
ListItems(depth) ==
  LET flat == UNION {[1..m -> Blocks] : m \in 0..MaxItemKids}
      nested == IF depth = 0 THEN {}
                ELSE {<<b, OrgNode("plain-list", Null, Undefined, <<it>>)>> :
                        b \in Blocks, it \in ListItems(depth - 1)}
  IN {OrgNode("list-item", cb, Undefined, ks) : cb \in Checkboxes, ks \in flat \cup nested}

OrgTrees ==
  {OrgNode("org-data", Null, Undefined, <<OrgNode("plain-list", Null, Undefined, <<it>>)>>) :
     it \in ListItems(ListDepth)}

EmptyOrgTree == OrgNode("org-data", Null, Undefined, <<>>)

InitOrgIdle == orgParsed = EmptyOrgTree /\ orgTree = EmptyOrgTree /\ orgDone = FALSE

\* Syntax trees of the metadata kinds: objects lie in paragraphs, elements in
\* the section or in a drawer; at most MaxMetaKids children per paragraph
\* and per drawer.
MaxMetaKids == 2

Keyword(k, v) == [OrgBase EXCEPT !.type = "keyword", !.key = k, !.value = v]
Planning(s, d, c) ==
  [OrgBase EXCEPT !.type = "planning", !.scheduled = s, !.deadline = d, !.closed = c]
LatexFragment(v, c) == [OrgBase EXCEPT !.type = "latex-fragment", !.value = v, !.contents = c]
Clock(t, dur, st) ==
  [OrgBase EXCEPT !.type = "clock", !.time = t, !.duration = dur, !.status = st]
NodeProperty(k, v) == [OrgBase EXCEPT !.type = "node-property", !.key = k, !.value = v]
PropertyDrawer(ks) == [OrgBase EXCEPT !.type = "property-drawer", !.children = ks]
Drawer(n, ks) == [OrgBase EXCEPT !.type = "drawer", !.name = n, !.children = ks]
Section(ks) == [OrgBase EXCEPT !.type = "section", !.children = ks]
OrgData(ks) == [OrgBase EXCEPT !.type = "org-data", !.children = ks]

Keywords ==
  {Keyword(k, <<"M", "y">>) : k \in {"TITLE", "LANGUAGE", "OPTIONS", "title"}}

Plannings ==
  {Planning(s, d, c) :
     s \in {NoTimestamp, Timestamp(<<"<", "1", ":", "0", ">">>)},
     d \in {NoTimestamp, Timestamp(<<"<", "2", ">">>)},
     c \in {NoTimestamp, Timestamp(<<"[", "3", "]">>)}}

LatexFragments ==
  {LatexFragment(<<"$", "$", "x", "$", "$">>, <<"x">>),
   LatexFragment(<<"$", "$", " ", "x", " ", "$", "$">>, <<" ", "x", " ">>),
   LatexFragment(<<"$", "x", "$">>, <<"x">>),
   LatexFragment(<<"\\", "[", "x", " ", "\\", "]">>, <<"x", " ">>),
   LatexFragment(<<"\\", "(", "x", "\\", ")">>, <<"x">>)}

Clocks ==
  {Clock(t, dur, st) :
     t \in {Timestamp(<<"[", "3", "]">>)},
     dur \in {<<>>, <<"1", ":", "0">>},
     st \in {"running", "closed"}}

PropertyDrawers ==
  {PropertyDrawer(<<>>),
   PropertyDrawer(<<NodeProperty("ID", <<"7">>)>>),
   PropertyDrawer(<<NodeProperty("ID", <<"7">>), NodeProperty("AT", <<"8">>)>>)}

\* A text node the parser made.
ParsedText == Text(<<"t">>)

Objects == LatexFragments \cup {ParsedText}

\* What the parser makes of name_word and name^word in plain text: the
\* text before the mark, then a script node holding the word.
Script(t, word) == [OrgBase EXCEPT !.type = t, !.children = <<Text(word)>>]

ScriptParagraphs ==
  {Paragraph(<<Text(<<"q", "u", "i", "c", "k">>), Script(t, <<"r", "e", "f">>),
               Text(<<".", "o", "r", "g">>)>>) : t \in {"subscript", "superscript"}}

ParagraphsOf(n) == {Paragraph(ks) : ks \in UNION {[1..m -> Objects] : m \in 1..n}}

FlatElements == Keywords \cup Plannings \cup Clocks \cup PropertyDrawers

DrawerKids ==
  Keywords \cup {Clock(Timestamp(<<"[", "3", "]">>), <<"1", ":", "0">>, "running")}
    \cup PropertyDrawers \cup ParagraphsOf(1)

Drawers ==
  {Drawer(<<"NOTES">>, ks) : ks \in UNION {[1..m -> DrawerKids] : m \in 0..MaxMetaKids}}

MetaTrees ==
  {OrgData(<<Section(<<el>>)>>) :
     el \in FlatElements \cup ParagraphsOf(MaxMetaKids) \cup ScriptParagraphs \cup Drawers}
    \cup {OrgData(<<Section(<<a, b>>)>>) : a \in FlatElements, b \in FlatElements}

\* Render trees: at most MaxHastKids children per node, HastDepth levels
\* below the root's children.
MaxHastKids == 2
HastDepth == 1

HastLeaves ==
  {HastNode("text", "t", <<>>),
   HastNode("export-snippet", "u", <<>>),
   HastNode("citation-key", Undefined, <<>>),
   HastNode("element", Undefined, <<>>),
   HastNode("citation", Undefined, <<>>)}

RECURSIVE HastNodes(_)
HastNodes(depth) ==
  IF depth = 0 THEN HastLeaves
  ELSE HastLeaves \cup
       {HastNode(t, Undefined, ks) :
          t \in {"element", "citation"},
          ks \in UNION {[1..m -> HastNodes(depth - 1)] : m \in 1..MaxHastKids}}

HastTrees ==
  {HastNode("root", Undefined, ks) :
     ks \in UNION {[1..m -> HastNodes(HastDepth)] : m \in 0..MaxHastKids}}

EmptyHastTree == HastNode("root", Undefined, <<>>)

InitHastIdle == hastParsed = EmptyHastTree /\ hastTree = EmptyHastTree /\ hastDone = FALSE

\* The extension right after activate, the editor on a plain text file.  At
\* most MaxEdits edits are made over all documents.
MaxEdits == 2
edits(txt) == txt["a.org"] + txt["b.md"] + txt["c.txt"]

InitMgrIdle ==
  /\ manager = NewPreviewManager
  /\ documentText = [d \in Documents |-> 0]
  /\ activeEditor = "c.txt"
  /\ debounceTimer = Null

InitHostIdle == InitPipeIdle /\ InitOrgIdle /\ InitHastIdle /\ InitMgrIdle

\* ------------------------------------------------------------------ actions
\* document.addEventListener("DOMContentLoaded", ...): buildSections,
\* setStickyOffsets, buildToc, buildViewToggle, setupScrollSpy (with its first
\* updateActiveTocItem), setupMessageListener, setupAnchorLinks.
DOMContentLoaded ==
  /\ phase = "parsed"
  /\ LET built == buildSections(children)
         sticky == setStickyOffsets(built.dom, built.heads, offsetHeight)
         pcs == linkifyFileReferences(textContent, wrap)
         items == buildToc(built.dom, built.heads, sticky.id, children, pcs)
         hs == sectionHeadings(built.dom, built.heads)
     IN /\ dom' = built.dom
        /\ sectionHeading' = built.heads
        /\ classes' = [body |-> {}, section |-> {},
                       toggle |-> [i \in built.heads |-> ToggleExpanded]]
        /\ stickyTop' = sticky.top
        /\ tocId' = sticky.id
        /\ toc' = items
        /\ pieces' = pcs
        /\ tocPanel' = insertsTocPanel(hs)
        /\ scrollListener' = registersScrollSpy(hs)
        /\ tocActive' = IF ~registersScrollSpy(hs) THEN {}
                        ELSE updateActiveTocItem(hs, rectTop, sticky.top, sticky.id, items)
  /\ tabs' = buildViewToggle(tabs)
  /\ phase' = "ready"
  /\ UNCHANGED <<docVars, rectTop, ticking, rafQueue, navVars, msgVars, hostVars>>

\* Most messages the model lets the view post.
MaxPosted == 2

\* A click on the article.
Click(e) ==
  /\ phase = "ready"
  /\ clickable(pieces, wrap, e)
  /\ classes' = dispatchClick(classes, dom, sectionHeading, e)
  /\ scrolledTo' = anchorScroll(scrolledTo, e)
  /\ posted' = linkClick(posted, pieces, e)
  /\ Len(posted') <= MaxPosted
  /\ UNCHANGED <<docVars, buildVars, spyVars, tabVars, hostVars>>

\* A click on the x-th entry of the table of contents.
TocClick(x) ==
  /\ phase = "ready"
  /\ x \in DOMAIN toc
  /\ scrolledTo' = tocItemClick(toc, x)
  /\ UNCHANGED <<docVars, buildVars, spyVars, classes, msgVars, tabVars, hostVars>>

\* A scroll event that leaves the headings at the positions tops.
Scroll(tops) ==
  /\ phase = "ready"
  /\ rectTop' = tops
  /\ LET r == IF scrollListener THEN scrollHandler(ticking, rafQueue)
              ELSE [ticking |-> ticking, rafQueue |-> rafQueue]
     IN ticking' = r.ticking /\ rafQueue' = r.rafQueue
  /\ UNCHANGED <<docVars, buildVars, classes, tocActive, scrollListener, navVars, msgVars,
                 tabVars, hostVars>>

\* The callback handed to requestAnimationFrame: updateActiveTocItem, then
\* ticking = false.  An animation frame runs every callback queued for it.
RECURSIVE runCallbacks(_, _, _)
runCallbacks(n, st, active) ==
  IF n = 0 THEN st
  ELSE runCallbacks(n - 1, [tocActive |-> active, ticking |-> FALSE], active)

AnimationFrame ==
  /\ phase = "ready"
  /\ rafQueue > 0
  /\ LET st == runCallbacks(rafQueue, [tocActive |-> tocActive, ticking |-> ticking],
                            updateActiveTocItem(sectionHeadings(dom, sectionHeading),
                                                rectTop, stickyTop, tocId, toc))
     IN tocActive' = st.tocActive /\ ticking' = st.ticking
  /\ rafQueue' = 0
  /\ UNCHANGED <<docVars, buildVars, classes, rectTop, scrollListener, navVars, msgVars,
                 tabVars, hostVars>>

\* ---- the section builder alone
InitSections == InitView(MaxLen, HeadingHeights) /\ InitHostIdle

NextSections == DOMContentLoaded

SpecSections == InitSections /\ [][NextSections]_vars

\* ---- clicks on a loaded document
MaxClickLen == 2

\* The text of every heading: a reference to a document, a blank, a
\* reference to a source file.
CollapseText == <<"a", ".", "m", "d", " ", "b", ".", "p", "y">>

InitCollapse == InitViewText(MaxClickLen, {20}, {CollapseText}) /\ InitHostIdle

NextCollapse ==
  \/ DOMContentLoaded
  \/ \E e \in ClickEvents(Len(children)) : Click(e)
  \/ Scroll(rectTop)
  \/ AnimationFrame

SpecCollapse == InitCollapse /\ [][NextCollapse]_vars

\* ---- the view toggle
\* Most messages the view posts, most pending timeouts of the copy button,
\* most clicks on one button of the bar.
MaxTabPosted == 3
MaxResets == 1
MaxTabClicks == 2

\* What the extension may send to the view.
TemplateRaws == {"* A", "* B"}
HostMessages ==
  {[command |-> "docFileMap"], [command |-> "clipboardCopied"], [command |-> "other"]}
    \cup {[command |-> "templateData", raw |-> r] : r \in TemplateRaws}

\* A click on one of the three buttons of the bar.
TabClick(btn) ==
  /\ phase = "ready"
  /\ tabs.clicks[btn] < MaxTabClicks
  /\ LET r == tabClick(tabs, posted, btn) IN
       /\ tabs' = [r.tabs EXCEPT !.clicks[btn] = @ + 1]
       /\ posted' = r.posted
  /\ Len(posted') <= MaxTabPosted
  /\ UNCHANGED <<docVars, buildVars, spyVars, classes, navVars, hostVars>>

\* A message from the extension reaches the window.
Message(message) ==
  /\ phase = "ready"
  /\ tabs' = [onMessage(tabs, message)
                EXCEPT !.templateReceived = @ \/ message.command = "templateData"]
  /\ tabs'.resets <= MaxResets
  /\ UNCHANGED <<docVars, buildVars, spyVars, classes, navVars, msgVars, hostVars>>

\* A click on the copy button of the template.
CopyClick ==
  /\ phase = "ready"
  /\ tabs.copyBtn # Null
  /\ posted' = copyBtnClick(tabs, posted)
  /\ Len(posted') <= MaxTabPosted
  /\ UNCHANGED <<docVars, buildVars, spyVars, classes, navVars, tabVars, hostVars>>

\* The timeout of a clipboardCopied message restores its button's text.
CopiedTimeout ==
  /\ tabs.resets > 0
  /\ tabs' = [tabs EXCEPT !.copyBtn = CopyLabel, !.resets = @ - 1]
  /\ UNCHANGED <<docVars, buildVars, spyVars, classes, navVars, msgVars, hostVars>>

InitTabs == InitView(0, {20}) /\ InitHostIdle

NextTabs ==
  \/ DOMContentLoaded
  \/ \E btn \in Views : TabClick(btn)
  \/ \E message \in HostMessages : Message(message)
  \/ CopyClick
  \/ CopiedTimeout

SpecTabs == InitTabs /\ [][NextTabs]_vars

\* ---- the table of contents
MaxTocLen == 2

\* Heading texts: plain, padded with white space, white space only, empty.
HeadingTexts ==
  {<<"a">>, <<" ", "a">>, <<"a", " ", "b", " ">>, <<" ">>, <<>>}

InitToc == InitViewText(MaxTocLen, {20}, HeadingTexts) /\ InitHostIdle

NextToc ==
  \/ DOMContentLoaded
  \/ \E x \in 1..MaxTocLen : TocClick(x)

SpecToc == InitToc /\ [][NextToc]_vars

\* ---- file references
\* Documents of one child: a paragraph or a heading.
RefDocs == {<<"P">>, <<"H1">>}

\* The extensions of the lookup table.
TableExts == OrgExts \cup DocExts \cup CodeExts \cup ConfigExts

\* The path-like tokens name.E, with or without directory and line number.
RefDirs == {<<>>, <<"d", "/">>}
RefLines == {<<>>, <<":", "7">>}
Tokens(E) == {dir \o <<"a", ".">> \o E \o line : dir \in RefDirs, line \in RefLines}

\* The prose around a token.
RefProse ==
  {[pre |-> <<>>, post |-> <<>>],
   [pre |-> <<"s", "e", "e", " ">>, post |-> <<" ", "n", "o", "w">>]}

\* Texts without a reference, with a reference before a full stop, and with
\* two references.
OtherTexts ==
  {<<>>, <<"a">>, <<"a", ".">>, <<".", "m", "d">>, <<"a", " ", ".", "m", "d">>,
   <<"a", ".", "m", "d", ".">>, CollapseText,
   <<"a", ".", "m", "d", " ", "b", ".", "o", "r", "g", ":", "7", "!">>}

RefTexts ==
  {c.pre \o tok \o c.post : c \in RefProse, tok \in UNION {Tokens(E) : E \in TableExts}}
    \cup OtherTexts

InitRefs == InitViewDoc(RefDocs, {20}, RefTexts, RefTexts, Wraps) /\ InitHostIdle

NextRefs ==
  \/ DOMContentLoaded
  \/ \E e \in PieceClicks(pieces, wrap) : Click(e)

SpecRefs == InitRefs /\ [][NextRefs]_vars

\* ---- the scroll spy
MaxSpyLen == 2

InitSpy == InitView(MaxSpyLen, HeadingHeights) /\ InitHostIdle

NextSpy ==
  \/ DOMContentLoaded
  \/ \E tops \in [DOMAIN children -> RectTops] : Scroll(tops)
  \/ AnimationFrame

SpecSpy == InitSpy /\ [][NextSpy]_vars

\* ---- the pipeline
\* orgToHtml(orgText) is called and awaits processor.process.
CallOrgToHtml(text) ==
  /\ call.status = "idle"
  /\ call' = [status |-> "awaiting", text |-> text]
  /\ UNCHANGED <<viewVars, mgrVars, runVars, orgVars, hastVars>>

\* processor.process settles and orgToHtml returns.
ProcessSettles(outcome) ==
  /\ call.status = "awaiting"
  /\ call' = orgToHtmlSettle(call.text, outcome)
  /\ UNCHANGED <<viewVars, mgrVars, runVars, orgVars, hastVars>>

InitPipe == InitView(0, {20}) /\ InitHostIdle

NextPipe ==
  \/ \E text \in OrgTexts : CallOrgToHtml(text)
  \/ \E outcome \in Outcomes : ProcessSettles(outcome)

SpecPipe == InitPipe /\ [][NextPipe]_vars

\* ---- overlapping invocations of the pipeline
\* orgToHtml(orgText) is called while other invocations may be in flight.
StartRun(r, text) ==
  /\ runs[r].status = "idle"
  /\ runs' = [runs EXCEPT ![r] =
       [IdleRun EXCEPT !.status = "running", !.text = text, !.data = text,
                       !.overlap = \E o \in RunIds : runs[o].status = "running"]]
  /\ UNCHANGED <<viewVars, mgrVars, call, processor, orgVars, hastVars>>

\* The next plugin runs for invocation r.
RunStage(r) ==
  /\ runs[r].status = "running"
  /\ runs[r].at < 6
  /\ LET res == processStage(processor, runs[r]) IN
       /\ runs' = [runs EXCEPT ![r] = res.run]
       /\ processor' = res.state
  /\ UNCHANGED <<viewVars, mgrVars, call, orgVars, hastVars>>

\* processor.process fulfils and orgToHtml returns String(result).
ResolveRun(r) ==
  /\ runs[r].status = "running"
  /\ runs[r].at = 6
  /\ runs' = [runs EXCEPT ![r].status = "resolved", ![r].value = runs[r].data]
  /\ UNCHANGED <<viewVars, mgrVars, call, processor, orgVars, hastVars>>

InitRuns == InitView(0, {20}) /\ InitHostIdle

NextRuns ==
  \/ \E r \in RunIds, text \in RunTexts : StartRun(r, text)
  \/ \E r \in RunIds : RunStage(r)
  \/ \E r \in RunIds : ResolveRun(r)

SpecRuns == InitRuns /\ [][NextRuns]_vars

\* ---- the preview manager
\* docViewer.showPreview / docViewer.showPreviewToSide
ShowPreview(beside) ==
  /\ isSupported(activeEditor)
  /\ manager.started < MaxUpdates
  /\ manager.panels[activeEditor] # 0 \/ (beside /\ manager.followPanel # 0)
       \/ \E p \in PanelIds : manager.panel[p].state = "none"
  /\ manager' = show(manager, documentText, activeEditor, beside)
  /\ UNCHANGED <<viewVars, pipeVars, orgVars, hastVars, documentText, activeEditor, debounceTimer>>

\* onDidChangeActiveTextEditor
ChangeActiveTextEditor(doc) ==
  /\ doc # activeEditor
  /\ manager.started < MaxUpdates
  /\ activeEditor' = doc
  /\ manager' = IF isSupported(doc) THEN followActiveEditor(manager, documentText, doc) ELSE manager
  /\ UNCHANGED <<viewVars, pipeVars, orgVars, hastVars, documentText, debounceTimer>>

\* onDidChangeTextDocument: the one shared timer is cleared and set again.
ChangeTextDocument(doc) ==
  /\ edits(documentText) < MaxEdits
  /\ documentText' = [documentText EXCEPT ![doc] = @ + 1]
  /\ debounceTimer' = IF isSupported(doc) THEN doc ELSE debounceTimer
  /\ UNCHANGED <<viewVars, pipeVars, orgVars, hastVars, manager, activeEditor>>

\* The debounce timeout fires after UPDATE_DEBOUNCE_MS without being cleared.
DebounceFires ==
  /\ debounceTimer # Null
  /\ manager.started < MaxUpdates
  /\ manager' = updateIfVisible(manager, documentText, debounceTimer)
  /\ debounceTimer' = Null
  /\ UNCHANGED <<viewVars, pipeVars, orgVars, hastVars, documentText, activeEditor>>

\* orgToHtml of one update resolves and update continues.
RenderSettles(u) ==
  /\ u \in manager.inflight
  /\ manager' = settle(manager, u)
  /\ UNCHANGED <<viewVars, pipeVars, orgVars, hastVars, documentText, activeEditor, debounceTimer>>

\* The user closes a panel.
DisposePanel(p) ==
  /\ manager.panel[p].state = "open"
  /\ manager' = dispose(manager, p)
  /\ UNCHANGED <<viewVars, pipeVars, orgVars, hastVars, documentText, activeEditor, debounceTimer>>

InitManager == InitView(0, {20}) /\ InitHostIdle

\* The commands, the change of the active editor, the renders and dispose
NextManager ==
  \/ \E beside \in BOOLEAN : ShowPreview(beside)
  \/ \E doc \in Documents : ChangeActiveTextEditor(doc)
  \/ \E u \in manager.inflight : RenderSettles(u)
  \/ \E p \in PanelIds : DisposePanel(p)

SpecManager == InitManager /\ [][NextManager]_vars

\* The same with edits of the documents and the debounce timer.
NextEditing ==
  \/ NextManager
  \/ \E doc \in Documents : ChangeTextDocument(doc)
  \/ DebounceFires

SpecEditing == InitManager /\ [][NextEditing]_vars

\* Timers fire and promises settle; what the user does is not forced.
SpecEditingFair ==
  /\ SpecEditing
  /\ WF_vars(DebounceFires)
  /\ WF_vars(\E u \in manager.inflight : RenderSettles(u))

\* ---- the metadata plugin on lists of checkbox items
RunUniorgMetadata ==
  /\ ~orgDone
  /\ orgTree' = uniorgMetadata(orgTree)
  /\ orgDone' = TRUE
  /\ UNCHANGED <<viewVars, mgrVars, pipeVars, hastVars, orgParsed>>

InitCheckbox ==
  /\ InitView(0, {20}) /\ InitPipeIdle /\ InitHastIdle /\ InitMgrIdle
  /\ orgParsed \in OrgTrees
  /\ orgTree = orgParsed
  /\ orgDone = FALSE

NextCheckbox == RunUniorgMetadata

SpecCheckbox == InitCheckbox /\ [][NextCheckbox]_vars

\* ---- the metadata plugin on trees of the metadata kinds
InitMeta ==
  /\ InitView(0, {20}) /\ InitPipeIdle /\ InitHastIdle /\ InitMgrIdle
  /\ orgParsed \in MetaTrees
  /\ orgTree = orgParsed
  /\ orgDone = FALSE

NextMeta == RunUniorgMetadata

SpecMeta == InitMeta /\ [][NextMeta]_vars

\* ---- the sanitizer on render trees
RunCleanUnknownNodes ==
  /\ ~hastDone
  /\ hastTree' = clean(hastTree)
  /\ hastDone' = TRUE
  /\ UNCHANGED <<viewVars, mgrVars, pipeVars, orgVars, hastParsed>>

InitClean ==
  /\ InitView(0, {20}) /\ InitPipeIdle /\ InitOrgIdle /\ InitMgrIdle
  /\ hastParsed \in HastTrees
  /\ hastTree = hastParsed
  /\ hastDone = FALSE

NextClean == RunCleanUnknownNodes

SpecClean == InitClean /\ [][NextClean]_vars

\* ------------------------------------------------------- section properties
level(i) == headingLevel(children[i])
IsHeading(i) == level(i) > 0
Headings == {i \in DOMAIN children : IsHeading(i)}
Ready == phase = "ready"

\* The Section wrappers of the document, in document order.
SectionSeq == SelectSeq(DocOrder(dom, Article), LAMBDA n : n.k = "sec")

\* The original top-level children inside the subtree of n, in document order.
Flatten(n) == SelectSeq(DocOrder(dom, n), LAMBDA x : x.k = "el")

Max(S) == CHOOSE x \in S : \A y \in S : y <= x
Min(S) == CHOOSE x \in S : \A y \in S : x <= y

RECURSIVE SumHeights(_)
SumHeights(S) ==
  IF S = {} THEN 0
  ELSE LET x == CHOOSE y \in S : TRUE IN offsetHeight[x] + SumHeights(S \ {x})

\* The nearest preceding heading of a strictly smaller level that no heading
\* in between has closed; 0 when there is none.
NearestOpen(i) ==
  LET c == {j \in 1..(i - 1) :
              /\ IsHeading(j)
              /\ level(j) < level(i)
              /\ \A k \in (j + 1)..(i - 1) : IsHeading(k) => level(k) > level(j)}
  IN IF c = {} THEN 0 ELSE Max(c)

\* The next heading whose level is <= the level of heading i, or the end.
NextClose(i) ==
  LET c == {k \in (i + 1)..Len(children) : IsHeading(k) /\ level(k) <= level(i)}
  IN IF c = {} THEN Len(children) + 1 ELSE Min(c)

\* The headings whose Section strictly contains the Section of heading i.
AncestorSections(i) ==
  {j \in Headings : Body(j) \in DOMAIN dom /\ Sec(i) \in Range(DocOrder(dom, Body(j)))}

\* C1: buildSections produces exactly one Section per heading of the
\* top-level children, and every Section has exactly two direct parts: its
\* own heading followed by one body container.
C1_OneSectionPerHeading ==
  Ready =>
    /\ Len(SectionSeq) = Cardinality(Headings)
    /\ Cardinality(Range(SectionSeq)) = Len(SectionSeq)
    /\ \A s \in Range(SectionSeq) :
         /\ Len(dom[s]) = 2
         /\ dom[s][1] = El(s.i) /\ s.i \in Headings
         /\ dom[s][2].k = "body" /\ dom[s][2] \in DOMAIN dom
    /\ \A i \in Headings : Sec(i) \in Range(SectionSeq)

C1_Witness ==
  /\ Ready
  /\ Cardinality(Headings) >= 3
  /\ \E i \in DOMAIN children : ~IsHeading(i)
  /\ Len(SectionSeq) = Cardinality(Headings)

\* C2: the Section of a heading of level L is a child of the body of the
\* nearest preceding open heading of level < L, or of the document root when
\* there is none; no Section lies inside the Section of a heading of equal
\* or greater level.
C2_NestingByLevel ==
  Ready =>
    /\ \A i \in Headings :
         LET j == NearestOpen(i)
             p == IF j = 0 THEN Article ELSE Body(j)
         IN /\ p \in DOMAIN dom
            /\ Sec(i) \in Range(dom[p])
            /\ \A c \in DOMAIN dom : Sec(i) \in Range(dom[c]) => c = p
    /\ \A i \in Headings : \A j \in AncestorSections(i) : level(j) < level(i)

C2_Witness ==
  /\ Ready
  /\ children = <<"H1", "H2", "H1">>
  /\ dom[Article] = <<Sec(1), Sec(3)>>
  /\ dom[Body(1)] = <<Sec(2)>>

\* C3: the flattened content of every Section's body is exactly the run of
\* original children strictly between its heading and the next heading of
\* level <= its own (or the end), in the original order; over the whole
\* document nothing is lost or duplicated.
C3_BodyIsRun ==
  Ready =>
    /\ \A i \in Headings :
         /\ Body(i) \in DOMAIN dom
         /\ Flatten(Body(i)) = [x \in 1..(NextClose(i) - i - 1) |-> El(i + x)]
    /\ Flatten(Article) = [x \in 1..Len(children) |-> El(x)]

C3_Witness ==
  /\ Ready
  /\ \E i \in Headings :
       /\ NextClose(i) <= Len(children)
       /\ \E k \in (i + 1)..(NextClose(i) - 1) : IsHeading(k)
       /\ \E k \in (i + 1)..(NextClose(i) - 1) : ~IsHeading(k)
       /\ Len(Flatten(Body(i))) = NextClose(i) - i - 1

\* C10: after setStickyOffsets every heading's offset is the sum of the
\* heights of the headings of all its strict ancestor Sections; a heading of
\* a top-level Section (every level-1 heading) has offset 0, and a level-2
\* heading directly under a level-1 heading has that heading's height.
C10_StickyIsAncestorSum ==
  Ready =>
    /\ DOMAIN stickyTop = Headings
    /\ \A i \in Headings :
         /\ stickyTop[i] = SumHeights(AncestorSections(i))
         /\ Sec(i) \in Range(dom[Article]) => stickyTop[i] = 0
         /\ level(i) = 1 => stickyTop[i] = 0
         /\ \A j \in Headings :
              (level(i) = 2 /\ level(j) = 1 /\ Sec(i) \in Range(dom[Body(j)]))
                => stickyTop[i] = offsetHeight[j]

C10_Witness ==
  /\ Ready
  /\ \E i \in Headings :
       /\ Cardinality(AncestorSections(i)) = 2
       /\ \E a, b \in AncestorSections(i) : offsetHeight[a] # offsetHeight[b]
       /\ stickyTop[i] = 50

\* ----------------------------------------------------------- TOC properties
\* The headings of the document, in document order.
HeadingSeq == SelectSeq([i \in DOMAIN children |-> i], IsHeading)

NoSpaceAt(text, x) == text[x] # " "

\* text without its leading and trailing white space
Trimmed(text) ==
  LET ink == {x \in DOMAIN text : NoSpaceAt(text, x)}
  IN IF ink = {} THEN <<>> ELSE SubSeq(text, Min(ink), Max(ink))

\* One entry per heading, in document order, with the heading's id and
\* level; ids pairwise distinct; label(i) is the label entry i must carry.
TocMatchesHeadings(label(_)) ==
  (Ready /\ Headings # {}) =>
    /\ Len(toc) = Len(HeadingSeq)
    /\ \A x \in DOMAIN toc :
         /\ toc[x].id = tocId[HeadingSeq[x]]
         /\ toc[x].level = level(HeadingSeq[x])
         /\ toc[x].text = label(HeadingSeq[x])
         /\ tocItemClick(toc, x) = HeadingSeq[x]
    /\ \A x, y \in DOMAIN toc : toc[x].id = toc[y].id => x = y
    /\ \A i, j \in Headings : tocId[i] = tocId[j] => i = j

TextAsWritten(i) == textContent[i]
TextTrimmed(i) == Trimmed(textContent[i])

\* A click on entry x scrolls to the x-th heading and changes nothing else.
TocClickScrolls ==
  \A x \in DOMAIN toc :
    TocClick(x) => scrolledTo' = HeadingSeq[x] /\ classes' = classes

\* C11 as stated: with at least one heading, the table of contents has one
\* entry per heading in document order; entry i carries the id of heading i
\* (ids pairwise distinct), its level, and the heading's text with the toggle
\* glyph removed, exactly as written; clicking it scrolls that heading into
\* view.
C11_TocLabelIsHeadingText ==
  /\ []TocMatchesHeadings(TextAsWritten)
  /\ [][TocClickScrolls]_vars

\* C11 amended: as above, the label being the heading's text with the toggle
\* glyph removed and the leading and trailing white space trimmed.
C11_TocMatchesHeadings ==
  /\ []TocMatchesHeadings(TextTrimmed)
  /\ [][TocClickScrolls]_vars

\* The second of two entries was clicked; its heading is nested, and its
\* text is padded with white space.
C11_Witness ==
  /\ Ready
  /\ Len(toc) = 2
  /\ scrolledTo = HeadingSeq[2]
  /\ level(HeadingSeq[2]) = 2
  /\ textContent[HeadingSeq[2]] = <<"a", " ", "b", " ">>
  /\ toc[2].text = <<"a", " ", "b">>

\* ------------------------------------------------ file-reference properties
\* The elements replaceFileRefs made: child i, node x.
RefElements ==
  UNION {{<<i, x>> : x \in {y \in DOMAIN pieces[i] : pieces[i][y].kind # "text"}} :
           i \in DOMAIN pieces}

\* The extension of a matched text: what follows its last dot, without the
\* line number.
RefExt(ref) ==
  LET colons == {p \in DOMAIN ref : ref[p] = ":"}
      path == IF colons = {} THEN ref ELSE SubSeq(ref, 1, Min(colons) - 1)
      dots == {p \in DOMAIN path : path[p] = "."}
  IN SubSeq(path, Max(dots) + 1, Len(path))

OpenFile(path) == [command |-> "openFile", path |-> path]

\* What a click on element x of child i does, given the state it is made in.
RefClickEffect(i, x) ==
  LET e == PieceClick(pieces, wrap, i, x)
      el == pieces[i][x]
  IN /\ (el.kind = "a") <=> (el.fileType = "org")
     /\ (el.fileType = "org") <=> (RefExt(el.text) \in {<<"o", "r", "g">>, <<"m", "d">>})
     /\ el.kind \in {"a", "span"}
     /\ linkClick(posted, pieces, e) =
          (IF el.fileType = "org" THEN Append(posted, OpenFile(el.text)) ELSE posted)
     /\ el.fileType = "org" => dispatchClick(classes, dom, sectionHeading, e) = classes

\* A step that posts is a click on a link element, and it posts one message.
OnlyLinkClicksPost ==
  posted' # posted =>
    /\ Len(posted') = Len(posted) + 1
    /\ \E r \in RefElements :
         /\ pieces[r[1]][r[2]].kind = "a"
         /\ Click(PieceClick(pieces, wrap, r[1], r[2]))
         /\ posted' = Append(posted, OpenFile(pieces[r[1]][r[2]].text))
         /\ classes' = classes

\* C12: the element made for a match is interactive iff the match is
\* classified doc-link (extension org or md); a click on it sends exactly one
\* openFile request whose path is the matched text and does not toggle the
\* enclosing Section; any other match becomes a span, and a click on it sends
\* nothing.
C12_OnlyDocLinksOpenFiles ==
  /\ [](Ready => \A r \in RefElements : RefClickEffect(r[1], r[2]))
  /\ [][OnlyLinkClicksPost]_vars

\* The link in a heading that also holds a span was clicked once: one
\* request, and the Section is still expanded.
C12_Witness ==
  /\ Ready
  /\ children = <<"H1">>
  /\ textContent[1] = CollapseText
  /\ pieces[1][1].kind = "a" /\ pieces[1][3].kind = "span"
  /\ posted = <<OpenFile(<<"a", ".", "m", "d">>)>>
  /\ classes.body = {}

\* The words of a text: its maximal runs without a blank.
RECURSIVE Words(_)
Words(text) ==
  LET blanks == {p \in DOMAIN text : text[p] = " "} IN
  IF blanks = {} THEN {text}
  ELSE {SubSeq(text, 1, Min(blanks) - 1)}
         \cup Words(SubSeq(text, Min(blanks) + 1, Len(text)))

\* The classification the lookup table gives extension E.
TableClass(E) ==
  IF E \in {<<"o", "r", "g">>, <<"m", "d">>} THEN "org"
  ELSE IF E \in {<<"m", "d", "x">>, <<"r", "s", "t">>, <<"t", "x", "t">>} THEN "doc"
  ELSE IF E \in CodeExts THEN "code"
  ELSE "config"

\* Word w of child i was matched whole and tagged cls.
MatchedAs(i, w, cls) ==
  \E x \in DOMAIN pieces[i] :
    /\ pieces[i][x].kind # "text"
    /\ pieces[i][x].text = w
    /\ pieces[i][x].fileType = cls

\* The tokens of the extensions in exts are matched whole and tagged with
\* the table's classification.
TokensTagged(exts) ==
  Ready =>
    \A i \in DOMAIN children : ~skipped(wrap[i]) =>
      \A E \in exts : \A w \in Tokens(E) \cap Words(textContent[i]) :
        MatchedAs(i, w, TableClass(E))

\* C13 as stated: for every extension E of the lookup table and every token
\* name.E (optionally followed by :lineNumber) in prose, the scan matches the
\* whole token and tags it with the table's classification for E.
C13_EveryTableExtensionTagged == TokensTagged(TableExts)

\* An alternative of the pattern listed before E is a proper prefix of E.
Shadowed(E) ==
  \E x \in DOMAIN FILE_REF_EXTS :
    /\ FILE_REF_EXTS[x] # E
    /\ startsAt(E, 1, FILE_REF_EXTS[x])
    /\ \A y \in DOMAIN FILE_REF_EXTS : FILE_REF_EXTS[y] = E => x < y

\* No dot that follows a path character is followed by an extension.
NoReference(text) ==
  ~ \E p \in 2..Len(text) :
      /\ text[p] = "."
      /\ pathChar(text[p - 1])
      /\ \E x \in DOMAIN FILE_REF_EXTS : startsAt(text, p + 1, FILE_REF_EXTS[x])

\* C14: the text of the nodes that replace a text node, concatenated in
\* order, is the original text; a text node without a match, and one inside a
\* code block, a link or a tagged span, is left as it is.
C14_TextPreserved ==
  Ready =>
    \A i \in DOMAIN children :
      /\ textOf(pieces[i]) = textContent[i]
      /\ \A x \in DOMAIN pieces[i] : pieces[i][x].text # <<>> \/ textContent[i] = <<>>
      /\ (wrap[i] # "none" \/ NoReference(textContent[i]))
           => pieces[i] = <<TextPiece(textContent[i])>>
      /\ (wrap[i] = "none" /\ ~NoReference(textContent[i]))
           => \E x \in DOMAIN pieces[i] : pieces[i][x].kind # "text"

\* A text node with two references and text after the last one was split in
\* four.
C14_Witness ==
  /\ Ready
  /\ wrap[1] = "none"
  /\ textContent[1] = <<"a", ".", "m", "d", " ", "b", ".", "o", "r", "g", ":", "7", "!">>
  /\ Len(pieces[1]) = 4
  /\ pieces[1][3].text = <<"b", ".", "o", "r", "g", ":", "7">>
  /\ pieces[1][4] = TextPiece(<<"!">>)

\* ------------------------------------------------- documents without heading
\* C16: for a document without heading, TOC construction, sticky-offset
\* setup and scroll-spy setup do nothing and the load completes: no TOC panel
\* and no entry is created, no offset and no id is set, no scroll listener
\* is registered (a scroll schedules no measurement), and the content stays
\* at the document root in its original order.
C16_NoHeadingsNoOp ==
  (Ready /\ Headings = {}) =>
    /\ ~tocPanel /\ toc = <<>> /\ tocActive = {}
    /\ stickyTop = <<>> /\ tocId = <<>>
    /\ ~scrollListener /\ rafQueue = 0 /\ ~ticking
    /\ sectionHeading = {}
    /\ dom = (Article :> [i \in DOMAIN children |-> El(i)])

\* A loaded document of two paragraphs has been scrolled.
C16_Witness ==
  /\ Ready
  /\ children = <<"P", "P">>
  /\ rectTop = <<10, 31>>
  /\ ~tocPanel /\ ~scrollListener /\ rafQueue = 0

\* ------------------------------------------------------ collapse properties
\* Clicks on heading i whose target is inside no link and no file reference.
DirectClicks(i) == {ClickEvent(i, "text", FALSE, 0)}

\* Clicks on heading i whose target is inside a link or a file reference.
EmbeddedClicks(i) == ClickEventsAt(i, Len(children)) \ DirectClicks(i)

\* Clicks on an internal anchor link whose target exists.
AnchorClicks ==
  {ClickEvent(i, "link", TRUE, t) : i \in DOMAIN children, t \in DOMAIN children}

\* The headings whose Section contains original child t: those at or before
\* t that no heading up to t has closed.
SectionsAround(t) == {j \in Headings : j <= t /\ t < NextClose(j)}

CollapseChanged(i) == (i \in classes.body) # (i \in classes'.body)

StartsExpanded == (phase = "parsed" /\ phase' = "ready") => classes'.body = {}

DirectClickFlips ==
  \A i \in sectionHeading : \A e \in DirectClicks(i) : Click(e) => CollapseChanged(i)

\* C7 as stated: every Section starts expanded; its collapse state changes
\* only when its own heading is clicked directly, each such click flips it,
\* and a click inside a link or a file reference in the heading changes
\* nothing.
C7_OnlyOwnHeadingClick ==
  [][/\ StartsExpanded
     /\ DirectClickFlips
     /\ \A i \in sectionHeading :
          /\ CollapseChanged(i) => \E e \in DirectClicks(i) : Click(e)
          /\ \A e \in EmbeddedClicks(i) : Click(e) => classes'.body = classes.body]_vars

\* What one click event may do to the set of collapsed bodies: a direct
\* click on a heading flips that heading's Section, a click on an internal
\* anchor link whose target exists expands the Sections around the target,
\* any other click changes nothing.
ClickEffect(e, before, after) ==
  IF e.at \in Headings /\ e \in DirectClicks(e.at)
  THEN after = (before \ {e.at}) \cup ({e.at} \ before)
  ELSE IF e \in AnchorClicks
  THEN after = before \ SectionsAround(e.target)
  ELSE after = before

\* In every reachable state, every click event has its permitted effect.
ClicksHaveTheirEffect ==
  Ready => \A e \in ClickEvents(Len(children)) :
             ClickEffect(e, classes.body,
                         dispatchClick(classes, dom, sectionHeading, e).body)

\* A step that changes the collapse state is a click step.
OnlyClicksChange ==
  classes' # classes /\ phase = "ready" => \E e \in ClickEvents(Len(children)) : Click(e)

\* C7 amended: every Section starts expanded; its collapse state changes only
\* when its own heading is clicked directly (a flip) or when an internal
\* anchor link whose target exists inside the Section is clicked (the Section
\* is then expanded); a click inside a file reference, or inside a link that
\* is no such anchor, changes nothing; scroll events and animation frames
\* change nothing.
C7_CollapseTransitions ==
  /\ []ClicksHaveTheirEffect
  /\ [][StartsExpanded /\ OnlyClicksChange]_vars

\* A nested Section is collapsed while the Section around it is expanded.
C7_Witness ==
  /\ Ready
  /\ \E i \in sectionHeading : \E j \in AncestorSections(i) :
       i \in classes.body /\ j \notin classes.body

\* The three collapse indicators of the Section of heading i in c.
BodyCollapsed(c, i) == i \in c.body
IndicatorsAgree(c, i) ==
  /\ BodyCollapsed(c, i) <=> i \in c.section
  /\ BodyCollapsed(c, i) <=> c.toggle[i] = ToggleCollapsed
  /\ ~BodyCollapsed(c, i) <=> c.toggle[i] = ToggleExpanded

\* C29: after any sequence of heading clicks and anchor-link clicks the three
\* collapse indicators of every Section agree (collapsed body, is-collapsed
\* Section, glyph), and after a click on an internal anchor link whose target
\* exists every Section that contains the target is expanded.
C29_IndicatorsAgree ==
  Ready =>
    /\ \A i \in sectionHeading : IndicatorsAgree(classes, i)
    /\ \A e \in AnchorClicks :
         LET c == dispatchClick(classes, dom, sectionHeading, e) IN
         /\ \A i \in sectionHeading : IndicatorsAgree(c, i)
         /\ \A j \in SectionsAround(e.target) : ~BodyCollapsed(c, j)

\* An anchor-link click has scrolled to a child inside a Section, all the
\* Sections around it are expanded, and another Section is collapsed.
C29_Witness ==
  /\ Ready
  /\ scrolledTo # 0
  /\ SectionsAround(scrolledTo) # {}
  /\ \A j \in SectionsAround(scrolledTo) : ~BodyCollapsed(classes, j)
  /\ \E i \in sectionHeading : BodyCollapsed(classes, i)

\* ---------------------------------------------------- scroll-spy properties
\* At most one measurement is pending, and the guard says so.
OnePending == rafQueue <= 1 /\ (ticking <=> rafQueue = 1)

\* The step is a scroll event (to whatever layout the step ends with).
IsScroll == Scroll(rectTop')

\* The step is an animation frame that ran callbacks.
IsFrame == rafQueue' < rafQueue

\* C8: at most one scroll-spy measurement is pending at any time and an
\* animation frame runs at most one recomputation; a scroll event arriving
\* while a measurement is pending schedules nothing, and one arriving when
\* none is pending (the last one has run) schedules a new one.
C8_OnePendingMeasurement ==
  /\ []OnePending
  /\ [][/\ IsFrame => (rafQueue - rafQueue' <= 1 /\ ~ticking')
        /\ (IsScroll /\ rafQueue = 1) => (rafQueue' = 1 /\ ticking')
        /\ (IsScroll /\ rafQueue = 0 /\ scrollListener) => (rafQueue' = 1 /\ ticking')]_vars

\* A measurement is pending again after an earlier one has run: the first
\* heading, active at load, has been scrolled off and the frame has seen it.
C8_Witness ==
  /\ Ready
  /\ children # <<>> /\ IsHeading(1)
  /\ tocActive = {}
  /\ rafQueue = 1 /\ ticking

\* The last heading, in document order, at or above its own sticky offset
\* plus the tolerance of 10; 0 when there is none.
LastAboveLine ==
  LET c == {i \in Headings : rectTop[i] <= stickyTop[i] + 10}
  IN IF c = {} THEN 0 ELSE Max(c)

\* C9: after every recomputation (no measurement pending: the latest scroll
\* has been measured) the active TOC entry is the entry of the last heading
\* whose top is <= its own sticky offset + 10, no other entry is active, and
\* none is active when no heading satisfies the condition.
C9_ActiveIsLastAboveLine ==
  (Ready /\ rafQueue = 0) =>
    tocActive = {x \in DOMAIN toc : toc[x].heading = LastAboveLine}

\* A nested heading is active because of its own sticky offset: its top of
\* 31 is above 30 + 10 and not above 10.
C9_Witness ==
  /\ Ready /\ rafQueue = 0
  /\ \E i \in Headings :
       /\ stickyTop[i] = 30 /\ rectTop[i] = 31
       /\ LastAboveLine = i
       /\ \E x \in DOMAIN toc : toc[x].heading = i /\ tocActive = {x}

\* ----------------------------------------------------- pipeline properties
\* text begins with the characters of p
StartsWith(text, p) == Len(text) >= Len(p) /\ SubSeq(text, 1, Len(p)) = p

\* Reading the entities &amp; &lt; &gt; back.
RECURSIVE unescapeHtml(_)
unescapeHtml(text) ==
  IF text = <<>> THEN <<>>
  ELSE IF StartsWith(text, Amp) THEN <<"&">> \o unescapeHtml(SubSeq(text, 6, Len(text)))
  ELSE IF StartsWith(text, Lt) THEN <<"<">> \o unescapeHtml(SubSeq(text, 5, Len(text)))
  ELSE IF StartsWith(text, Gt) THEN <<">">> \o unescapeHtml(SubSeq(text, 5, Len(text)))
  ELSE <<Head(text)>> \o unescapeHtml(Tail(text))

\* No raw < or >, and every & begins one of the three entities.
WellEscaped(text) ==
  \A x \in DOMAIN text :
    /\ text[x] \notin {"<", ">"}
    /\ text[x] = "&" =>
         LET rest == SubSeq(text, x, Len(text))
         IN StartsWith(rest, Amp) \/ StartsWith(rest, Lt) \/ StartsWith(rest, Gt)

ThrownMessage(t) == IF t.isError THEN t.message ELSE t.string

\* C4: orgToHtml never rejects; once processor.process has settled, the
\* promise is resolved with the serialized markup when every stage
\* succeeded, and otherwise with the error fragment: the heading and the
\* failure message with &, < and > escaped.
C4_AlwaysResolves ==
  /\ call.status \in {"idle", "awaiting", "resolved"}
  /\ call.status = "resolved" =>
       IF call.settled.ok
       THEN call.value = [kind |-> "markup", of |-> call.text]
       ELSE /\ call.value.kind = "error"
            /\ call.value.heading = "Org Preview Error"
            /\ WellEscaped(call.value.pre)
            /\ unescapeHtml(call.value.pre) = ThrownMessage(call.settled.thrown)

\* The serializer threw an Error whose message holds both & and <.
C4_Witness ==
  /\ call.status = "resolved"
  /\ ~call.settled.ok
  /\ call.settled.stage = 6
  /\ call.settled.thrown.isError
  /\ call.settled.thrown.message = <<"&", "<">>
  /\ call.value.pre = Amp \o Lt

\* ----------------------------------------------------- checkbox properties
Glyphs == {"U+2611 ", "U+2610 ", "U+2612 "}

GlyphFor(cb) == IF cb = "on" THEN "U+2611 " ELSE IF cb = "off" THEN "U+2610 " ELSE "U+2612 "

\* The list items of a tree, in document order.
RECURSIVE ItemsOf(_)
ItemsOf(node) ==
  (IF node.type = "list-item" THEN <<node>> ELSE <<>>)
    \o ConcatAll([x \in DOMAIN node.children |-> ItemsOf(node.children[x])])

\* The glyph text fragments of an item itself: those of its own paragraphs
\* and description terms.
OwnGlyphs(item) ==
  ConcatAll([x \in DOMAIN item.children |->
    IF item.children[x].type \in {"paragraph", "list-item-tag"}
    THEN SelectSeq(item.children[x].children,
                   LAMBDA t : t.type = "text" /\ t.value \in Glyphs)
    ELSE <<>>])

\* A node without the content of the list items nested in it.
RECURSIVE Own(_)
Own(node) ==
  [node EXCEPT !.children =
     [x \in DOMAIN node.children |->
        IF node.children[x].type = "list-item"
        THEN [node.children[x] EXCEPT !.children = <<>>]
        ELSE Own(node.children[x])]]

\* C5 as stated: after the plugin, every list item with checkbox state on,
\* off or partial holds exactly one glyph, the one of its state, whatever its
\* children are; every item without checkbox state is unchanged.
C5_OneGlyphPerCheckbox ==
  orgDone =>
    LET before == ItemsOf(orgParsed)
        after == ItemsOf(orgTree)
    IN /\ Len(after) = Len(before)
       /\ \A x \in DOMAIN before :
            IF before[x].checkbox \in {"on", "off", "trans"}
            THEN /\ Len(OwnGlyphs(after[x])) = 1
                 /\ OwnGlyphs(after[x])[1].value = GlyphFor(before[x].checkbox)
            ELSE Own(after[x]) = Own(before[x])

\* ------------------------------------------------- invocation properties
\* The string the pipeline returns for a text when it runs alone.
AloneOutput(text) ==
  rehypeStringify(clean(rehypeRaw(uniorg2rehype(uniorgMetadata(uniorgParse(text))))))

RECURSIVE NodeSeq(_)
NodeSeq(node) ==
  <<node>> \o ConcatAll([x \in DOMAIN node.children |-> NodeSeq(node.children[x])])

\* The nodes of a tree in document order, each with the kind of its parent.
RECURSIVE NodesUnder(_, _)
NodesUnder(node, parentType) ==
  <<[node |-> node, under |-> parentType]>>
    \o ConcatAll([x \in DOMAIN node.children |-> NodesUnder(node.children[x], node.type)])

OfType(nodes, types) == SelectSeq(nodes, LAMBDA n : n.type \in types)

\* The math nodes before and after the pass.
MathBefore == OfType(NodeSeq(orgParsed), {"latex-fragment"})
MathAfter == OfType(NodeSeq(orgTree), {"latex-fragment", "latex-environment"})

DisplayMath(v) == [OrgBase EXCEPT !.type = "latex-environment", !.value = v]

\* C17: a math fragment becomes a display-math node carrying the trimmed
\* inner value iff its raw value starts with $$; every other fragment is in
\* the output as the identical inline node, in the same order, so the two
\* variants differ in kind.
C17_DisplayMathIffDollars ==
  orgDone =>
    /\ Len(MathAfter) = Len(MathBefore)
    /\ \A x \in DOMAIN MathBefore :
         LET f == MathBefore[x]
             dollars == Len(f.value) >= 2 /\ f.value[1] = "$" /\ f.value[2] = "$"
         IN IF dollars
            THEN MathAfter[x] = DisplayMath(Trimmed(f.contents))
            ELSE MathAfter[x] = f /\ MathAfter[x].type = "latex-fragment"

\* A paragraph held a padded $$ fragment and a \[ fragment.
C17_Witness ==
  /\ orgDone
  /\ Len(MathBefore) = 2
  /\ MathBefore[1].contents = <<" ", "x", " ">>
  /\ MathAfter[1] = DisplayMath(<<"x">>)
  /\ MathBefore[2].value[1] = "\\"
  /\ MathAfter[2] = MathBefore[2]

\* C18: the tree the normalizer leaves holds no subscript and no superscript
\* node: the script markup of an identifier such as quick_reference.org is
\* literal text again.
C18_NoScriptNodeLeft ==
  orgDone => OfType(NodeSeq(orgTree), {"subscript", "superscript"}) = <<>>

AllowList ==
  {"TITLE", "AUTHOR", "DATE", "EMAIL", "DESCRIPTION", "CATEGORY", "FILETAGS", "LANGUAGE"}

\* The bold-label paragraph Key: value
MetaParagraph(k, v) ==
  Paragraph(<<Bold(<<k, ":", " ">>), Text(v \o <<"\n">>)>>)

IsMetaParagraph(n) ==
  /\ n.type = "paragraph"
  /\ Len(n.children) = 2
  /\ n.children[1].type = "bold"
  /\ \E k \in AllowList : n.children[1] = Bold(<<k, ":", " ">>)

\* The keywords before the pass, each with the kind of its parent, and what
\* stands for them after it.
KeywordsBefore == SelectSeq(NodesUnder(orgParsed, "none"), LAMBDA n : n.node.type = "keyword")
KeywordsAfter ==
  SelectSeq(NodeSeq(orgTree), LAMBDA n : n.type = "keyword" \/ IsMetaParagraph(n))

\* The text nodes the parser made, before and after the pass.
ParsedTextBefore == SelectSeq(NodeSeq(orgParsed), LAMBDA n : n = ParsedText)
ParsedTextAfter == SelectSeq(NodeSeq(orgTree), LAMBDA n : n = ParsedText)

\* The keywords are replaced as replaced(k) says, in order, and the nodes no
\* rule handles are passed through as they are.
KeywordsReplaced(replaced(_)) ==
  orgDone =>
    /\ Len(KeywordsAfter) = Len(KeywordsBefore)
    /\ \A x \in DOMAIN KeywordsBefore :
         LET k == KeywordsBefore[x].node IN
         KeywordsAfter[x] = IF replaced(KeywordsBefore[x])
                            THEN MetaParagraph(k.key, k.value) ELSE k
    /\ ParsedTextAfter = ParsedTextBefore
    /\ \A n \in Range(NodeSeq(orgParsed)) :
         n.type \in {"text", "paragraph", "section", "node-property", "latex-environment"}
           => visitNode(n) = <<n>>

InAllowList(k) == k.node.key \in AllowList
InAllowListVisited(k) == k.node.key \in AllowList /\ k.under # "drawer"

\* C19 as stated: a keyword is replaced by the bold-label paragraph Key:
\* value iff its key is in the allow-list, wherever it stands; any other
\* keyword, and every node of a kind no rule handles, is in the output as
\* the identical node.
C19_KeywordIffAllowListed == KeywordsReplaced(InAllowList)

\* C19 amended: as above for every keyword that is not a direct child of a
\* drawer; a keyword directly inside a drawer is passed through whatever
\* its key.
C19_KeywordIffAllowListedOutsideDrawer == KeywordsReplaced(InAllowListVisited)

\* The section held a LANGUAGE keyword and an OPTIONS keyword.
C19_Witness ==
  /\ orgDone
  /\ Len(KeywordsBefore) = 2
  /\ KeywordsBefore[1].node.key = "LANGUAGE" /\ KeywordsBefore[2].node.key = "OPTIONS"
  /\ KeywordsAfter[1] = MetaParagraph("LANGUAGE", <<"M", "y">>)
  /\ KeywordsAfter[2] = KeywordsBefore[2].node

PlanningLabels == {<<"SCHEDULED", ":", " ">>, <<"DEADLINE", ":", " ">>, <<"CLOSED", ":", " ">>}

IsPlanningParagraph(n) ==
  /\ n.type = "paragraph"
  /\ n.children # <<>>
  /\ \E l \in PlanningLabels : n.children[1] = Bold(l)

PlanningsBefore == OfType(NodeSeq(orgParsed), {"planning"})
PlanningsAfter ==
  SelectSeq(NodeSeq(orgTree), LAMBDA n : n.type = "planning" \/ IsPlanningParagraph(n))

\* The bold labels and monospace timestamps of the present fields, in the
\* order scheduled, deadline, closed.
PlanningFields(p) ==
  (IF p.scheduled.present
   THEN <<Bold(<<"SCHEDULED", ":", " ">>), Code(p.scheduled.rawValue)>> ELSE <<>>)
  \o (IF p.deadline.present
      THEN <<Bold(<<"DEADLINE", ":", " ">>), Code(p.deadline.rawValue)>> ELSE <<>>)
  \o (IF p.closed.present
      THEN <<Bold(<<"CLOSED", ":", " ">>), Code(p.closed.rawValue)>> ELSE <<>>)

HasField(p) == p.scheduled.present \/ p.deadline.present \/ p.closed.present

\* n is one paragraph holding the label and timestamp of each present field
\* of p, in order, with blank text between and after them.
IsPlanningBlockOf(n, p) ==
  /\ n.type = "paragraph"
  /\ OfType(n.children, {"bold", "code"}) = PlanningFields(p)
  /\ \A x \in DOMAIN n.children :
       n.children[x].type \notin {"bold", "code"} =>
         /\ n.children[x].type = "text"
         /\ n.children[x].value \in {<<" ", " ">>, <<"\n">>}

\* The plannings with a field, in order, are replaced by their paragraph.
PlanningsWithFieldReplaced(after) ==
  LET before == SelectSeq(PlanningsBefore, HasField) IN
  /\ Len(after) = Len(before)
  /\ \A x \in DOMAIN before : IsPlanningBlockOf(after[x], before[x])

IsPropertiesParagraph(n) ==
  /\ n.type = "paragraph"
  /\ n.children # <<>>
  /\ n.children[1] = Bold(<<"Properties">>)

PropertyDrawersBefore == OfType(NodeSeq(orgParsed), {"property-drawer"})
PropertyDrawersAfter ==
  SelectSeq(NodeSeq(orgTree), LAMBDA n : n.type = "property-drawer" \/ IsPropertiesParagraph(n))

\* The block the rule specifies for a drawer: the bold label, a line break,
\* then per pair the monospace key, the text ": value" and a line break.
PropertiesBlock(d) ==
  Paragraph(<<Bold(<<"Properties">>), LineBreak>>
    \o ConcatAll([x \in DOMAIN d.children |->
          <<Code(<<d.children[x].key>>), Text(<<":", " ">> \o d.children[x].value),
            LineBreak>>]))

\* C21: every property drawer with pairs is replaced by one block with the
\* bold Properties label and one key/value line per pair in the drawer's
\* order; a property drawer without pairs is replaced by nothing, so no
\* property-drawer node is left in the tree.
C21_PropertyDrawerBlockOrNothing ==
  orgDone =>
    LET full == SelectSeq(PropertyDrawersBefore, LAMBDA d : d.children # <<>>) IN
    /\ Len(PropertyDrawersAfter) = Len(full)
    /\ \A x \in DOMAIN full : PropertyDrawersAfter[x] = PropertiesBlock(full[x])

\* The same for the drawers with pairs only.
PropertyDrawersWithPairsReplaced ==
  orgDone =>
    LET full == SelectSeq(PropertyDrawersBefore, LAMBDA d : d.children # <<>>)
        blocks == SelectSeq(PropertyDrawersAfter, IsPropertiesParagraph) IN
    /\ Len(blocks) = Len(full)
    /\ \A x \in DOMAIN full : blocks[x] = PropertiesBlock(full[x])

DrawersBefore == OfType(NodeSeq(orgParsed), {"drawer"})

\* What the top-level rule gives for a child of a drawer where the claim
\* says it is expanded, and the child itself elsewhere.
ExpandedAtTopLevel(child) ==
  IF child.type \in {"clock", "property-drawer"} THEN visitNode(child) ELSE <<child>>

\* C22: a named drawer is replaced by a bold label naming it followed by
\* its children in order, each clock or property-drawer child expanded to
\* what the top-level rule gives for the same node, every other child the
\* identical node.
C22_DrawerExpandsAsTopLevel ==
  orgDone => \A x \in DOMAIN DrawersBefore :
    LET d == DrawersBefore[x] IN
    visitNode(d) =
      <<Paragraph(<<Bold(d.name), Text(<<"\n">>)>>)>>
        \o ConcatAll([y \in DOMAIN d.children |-> ExpandedAtTopLevel(d.children[y])])

\* The same for the drawers that hold no property drawer without pairs.
DrawerExpandsAsTopLevelWithPairs ==
  orgDone => \A x \in DOMAIN DrawersBefore :
    LET d == DrawersBefore[x] IN
    (\A y \in DOMAIN d.children : d.children[y] # PropertyDrawer(<<>>)) =>
      visitNode(d) =
        <<Paragraph(<<Bold(d.name), Text(<<"\n">>)>>)>>
          \o ConcatAll([y \in DOMAIN d.children |-> ExpandedAtTopLevel(d.children[y])])

\* ---------------------------------------------------- sanitizer properties
\* The types of all nodes of a tree.
RECURSIVE TypesOf(_)
TypesOf(node) ==
  {node.type} \cup UNION {TypesOf(node.children[x]) : x \in DOMAIN node.children}

\* The cleanup the claim describes: an unknown child with a string payload
\* becomes text, any other unknown child is replaced by its cleaned
\* children (none: dropped), at every depth.
RECURSIVE CleanedChild(_)
RECURSIVE Cleaned(_)
CleanedChild(child) ==
  IF child.type \in knownTypes THEN <<Cleaned(child)>>
  ELSE IF child.value # Undefined THEN <<HastNode("text", child.value, <<>>)>>
  ELSE ConcatAll([x \in DOMAIN child.children |-> CleanedChild(child.children[x])])

Cleaned(node) ==
  [node EXCEPT !.children =
     ConcatAll([x \in DOMAIN node.children |-> CleanedChild(node.children[x])])]

\* C6 as stated: after the sanitizer no node at any depth has a kind outside
\* the known set, and the tree is the cleanup of the tree it was given, also
\* where unknown nodes lie directly inside unknown nodes.
C6_NoUnknownNodeLeft ==
  hastDone =>
    /\ TypesOf(hastTree) \subseteq knownTypes
    /\ hastTree = Cleaned(hastParsed)

\* ------------------------------------------- preview manager properties
\* The updates of panel p still awaiting orgToHtml.
InFlight(p) == {u \in manager.inflight : u.panel = p}
OpenPanels == {p \in PanelIds : manager.panel[p].state = "open"}
Settled(p) == p \in OpenPanels /\ InFlight(p) = {}

\* C23: a render that belongs to an older update never changes a panel a
\* newer update has taken over: once no update of an open panel is awaiting
\* its render, the panel shows the content of the update started last.
C23_StaleRenderIgnored ==
  \A p \in PanelIds : Settled(p) =>
    /\ manager.panel[p].html.doc = manager.panel[p].latest.doc
    /\ manager.panel[p].html.version = manager.panel[p].latest.version

\* C24: no two open preview panels correspond to the same document.
C24_NoTwoPanelsForOneDocument ==
  \A p, q \in OpenPanels : manager.panel[p].shows = manager.panel[q].shows => p = q

\* The second half of C24 alone: show for a document with a tracked panel
\* creates no panel (what show does to a manager with that panel).
ShowOfTrackedCreatesNoPanel ==
  \A doc \in Documents : manager.panels[doc] # 0 =>
    \A beside \in BOOLEAN :
      LET m == show(manager, documentText, doc, beside) IN
      /\ \A p \in PanelIds : m.panel[p].state = manager.panel[p].state
      /\ m.panels = manager.panels
      /\ m.panel[manager.panels[doc]].latest.update = manager.started + 1

\* The panels that are the value of some key of the panel map.
Tracked == {manager.panels[doc] : doc \in Documents} \ {0}

\* C27: the panel map holds exactly the open panels: every open panel is
\* the value of some key and no disposed panel is the value of any key.
C27_PanelMapHoldsOpenPanels == Tracked = OpenPanels

\* The two halves of C27 apart.
OpenPanelsAreTracked == OpenPanels \subseteq Tracked
TrackedPanelsAreOpen == Tracked \subseteq OpenPanels

\* C28: followPanel and followKey are both null or both set, and when set
\* the panel map maps followKey to followPanel.
C28_FollowKeyMapsToFollowPanel ==
  /\ manager.followPanel = 0 <=> manager.followKey = Null
  /\ manager.followPanel # 0 => manager.panels[manager.followKey] = manager.followPanel

\* The first half of C28 alone.
FollowBothOrNeither == manager.followPanel = 0 <=> manager.followKey = Null

\* C25: when the active editor has changed to a supported document, the
\* follow panel is keyed to it, and once no render of the panel is in flight
\* the panel shows that document's rendered content.
C25_FollowPanelShowsActiveDocument ==
  (manager.followPanel # 0 /\ isSupported(activeEditor)) =>
     /\ manager.followKey = activeEditor
     /\ Settled(manager.followPanel) =>
           /\ manager.panel[manager.followPanel].html.doc = activeEditor
           /\ manager.panel[manager.followPanel].html.version =
                 manager.panel[manager.followPanel].latest.version

\* The re-keying of C25 alone: the change of the active editor to another
\* supported document keys the follow panel to it and to nothing else.
FollowPanelRekeyed ==
  (manager.followPanel # 0 /\ isSupported(activeEditor)) =>
     /\ manager.followKey = activeEditor
     /\ \A doc \in Documents :
          manager.panels[doc] = manager.followPanel => doc = activeEditor

\* A document with a preview panel whose latest text no update has read.
Unread(doc) ==
  /\ isSupported(doc)
  /\ manager.panels[doc] # 0
  /\ manager.updated[doc] < documentText[doc]

\* C26: every edit to a supported document that has a preview panel is
\* eventually followed by an update of that panel from the document's
\* latest text, also when other documents are edited in between (as long as
\* the panel stays and updates can still be started).
C26_EditEventuallyUpdatesPanel ==
  \A doc \in Documents :
    Unread(doc) ~> (~Unread(doc) \/ manager.started = MaxUpdates)

\* ---------------------------------------------------- view toggle properties
\* How many messages with that command the view has posted.
Posted(command) == Len(SelectSeq(posted, LAMBDA m : m.command = command))

Visible == {v \in Views : tabs.display[v] = ""}

\* C30: over any sequence of clicks on the three tabs the view sends
\* scanDocFiles once, on the first click on Doc Map, and never again, and
\* getTemplate once, on the first click on Template; exactly one view is
\* visible and exactly one button active, the visible view's; and
\* copyToClipboard is never sent before a templateData message was received.
C30_TabsLoadOnce ==
  Ready =>
    /\ Posted("scanDocFiles") = (IF tabs.clicks["docmap"] > 0 THEN 1 ELSE 0)
    /\ Posted("getTemplate") = (IF tabs.clicks["template"] > 0 THEN 1 ELSE 0)
    /\ Cardinality(Visible) = 1
    /\ Cardinality(tabs.active) = 1
    /\ tabs.active = Visible
    /\ Posted("copyToClipboard") > 0 => tabs.templateReceived

\* Doc Map was clicked twice, Template once, the template arrived and was
\* copied, and the Preview tab is active again.
C30_Witness ==
  /\ Ready
  /\ tabs.clicks["docmap"] = 2
  /\ tabs.clicks["template"] > 0
  /\ Posted("copyToClipboard") = 1
  /\ tabs.active = {"preview"}

====
